---- MODULE Spec2Model ----
(***************************************************************************)
(* A model of the analysis components of Db-analyzer:                      *)
(*   DatabaseHealth.analyzeDatabase   (src/src/components/SchemaGraphRenderer.tsx) *)
(*   SqlAnalyzer.loadDb               (src/src/components/SqlAnalyzer.tsx) *)
(*   MathematicalAnalysis.analyze     (src/src/components/SqlAnalyzer.tsx) *)
(*   AdvancedAnalytics                (src/src/App.tsx)                    *)
(*                                                                         *)
(* A database snapshot is what db.exec answers to the statements the       *)
(* components issue.  Table and column names are sequences of one-letter   *)
(* strings, so that the regular expressions and the unquoted interpolation *)
(* of names into SQL text can be computed on them.                         *)
(*                                                                         *)
(* JavaScript values are records tagged "number", "NaN", "null" or         *)
(* "undefined"; a fraction p/q that the code only compares and rounds is   *)
(* kept as the pair (p, q) and compared and rounded exactly.               *)
(***************************************************************************)
EXTENDS Integers, Sequences, FiniteSets, TLC

VARIABLES
    \* DatabaseHealth (SchemaGraphRenderer.tsx:504-508)
    healthDb,        \* the db prop the last pass ran against (<<>> before the first pass)
    healthLoading,   \* useState(true)
    healthChecks,    \* useState<HealthCheck[]>([])
    dbStats,         \* useState<DbStatistics | null>(null): <<>> is null, <<s>> is s
    overallScore,    \* useState(0)
    healthPrev,      \* history: the pass before the last one, <<[db, shown]>>
    \* SqlAnalyzer (SqlAnalyzer.tsx:20-24)
    saFile,          \* the file prop: <<>> before the first file, <<f>> after
    saPending,       \* the files whose loadDb is suspended at an await
    saTables,        \* useState<TableInfo[]>([])
    saLoading,       \* useState(false)
    saError,         \* useState<string | null>(null)
    saFinished,      \* history: the file of the loadDb that resumed last
    \* App (App.tsx:47-49)
    appFile,         \* file: useState<File | null>(null), <<>> is null
    appDb,           \* db: useState<Database | null>(null), <<>> is null
    appError,        \* error: useState<string | null>(null)
    appPending,      \* the files whose handleFile is suspended at an await
    \* GeminiChat (GeminiChat.tsx:29-36, 104-116)
    genAI,           \* the API client of the module: TRUE when one was configured
    chatDb,          \* the db prop: <<>> is null, <<n>> is the n-th database given
    messages,        \* useState<Message[]>([greeting])
    chatInput,       \* input: useState('')
    chatLoading,     \* loading: useState(false), a request is in flight
    apiError,        \* useState<string | null>(null)
    startChatHistory, \* history: the history of the last startChat call, <<h>>
    sentMessage,     \* history: the userMessage of the last startChat call, <<m>>
    sendCalls,       \* history: the number of handleSend calls so far
    \* MathematicalAnalysis (SqlAnalyzer.tsx:148-151)
    maDb,         \* the db prop of the last pass (<<>> before the first pass)
    maStats,         \* stats: useState<TableStats[]>([])
    maLoading,    \* useState(false)
    maRejected,      \* history: the promise of the last analyze() was rejected
    maHasStddev,     \* history: the engine of the last pass knows STDDEV
    \* AdvancedAnalytics (App.tsx:417-427)
    aaDb,            \* the db prop (<<>> before the component is mounted)
    aaTables,        \* tables: useState<string[]>([])
    selectedTable,   \* useState<string>(''): <<>> is ''
    aaColumns,       \* columns: useState<{name, type}[]>([])
    selectedColumns, \* useState<string[]>([])
    chartData,       \* useState<ChartData | null>(null)
    insights,        \* useState<string[]>([])
    correlations,    \* useState<CorrelationResult[]>([])
    \* SchemaGraphRenderer (SchemaGraphRenderer.tsx:33-111)
    graphTables,     \* the tables prop (<<>> before the component is mounted)
    schemaTables,    \* useState<SchemaTable[]>([])
    relationships,   \* useState<SchemaRelationship[]>([])
    graphPrev        \* history: the layout before this one, <<[tables, nodes, edges]>>

healthVars == <<healthDb, healthLoading, healthChecks, dbStats, overallScore, healthPrev>>
chatVars == <<genAI, chatDb, messages, chatInput, chatLoading, apiError,
              startChatHistory, sentMessage, sendCalls>>
appVars == <<appFile, appDb, appError, appPending, chatVars>>
saVars == <<saFile, saPending, saTables, saLoading, saError, saFinished, appVars>>
statsVars == <<maDb, maStats, maLoading, maRejected, maHasStddev>>
aaVars == <<aaDb, aaTables, selectedTable, aaColumns, selectedColumns, chartData,
            insights, correlations>>

layoutVars == <<graphTables, schemaTables, relationships, graphPrev>>

vars == <<healthVars, saVars, statsVars, aaVars, layoutVars>>

----------------------------------------------------------------------------
(* Bounds of the explored inputs *)

MaxTables == 3
MaxCols == 1

----------------------------------------------------------------------------
(* JavaScript values *)

Num(v) == [tag |-> "number", val |-> v]
NaN == [tag |-> "NaN"]
Null == [tag |-> "null"]
Undefined == [tag |-> "undefined"]
IsNaN(x) == x.tag = "NaN"
IsNum(x) == x.tag = "number"

\* Math.round of the fraction p/q, q > 0: the nearest integer, halves upwards
RoundFloor(p, q) == p \div q
Round(p, q) == (2 * p + q) \div (2 * q)

RECURSIVE SumSeq(_)
SumSeq(s) == IF s = <<>> THEN 0 ELSE Head(s) + SumSeq(Tail(s))

MaxOf(S) == CHOOSE m \in S : \A x \in S : x <= m

----------------------------------------------------------------------------
(* The database snapshots *)

Lower == {"a", "b"}
Upper == {"A", "B"}

\* "ab", "Ba", "a_b": names that can be written into SQL text as they are;
\* "a b" needs quoting.  SQLite compares table names without regard to
\* case, so no two names of a database differ in case only.
NameAb == <<"a", "b">>
NamePascal == <<"B", "a">>
NameSnake == <<"a", "_", "b">>
NameSpace == <<"a", " ", "b">>
TableNames == <<NameAb, NamePascal, NameSnake, NameSpace>>

\* The statements interpolate the name unquoted: on a name that is not a
\* bare identifier db.exec throws (a syntax error in PRAGMA f(a b); in
\* FROM a b no table is named by the first word alone)
QueryThrows(name) == \E i \in 1..Len(name) : name[i] \notin Lower \cup Upper \cup {"_"}

\* A row of PRAGMA table_info: row[1], row[2], row[3], row[5]
ColumnRows == [name : {<<"c">>}, type : {"INTEGER"}, notnull : BOOLEAN, pk : BOOLEAN]
\* (a table has at least one column)
ColumnLists == UNION {[1..n -> ColumnRows] : n \in 1..MaxCols}

\* A row of PRAGMA foreign_key_list: row[2], row[3], row[4]
ForeignKeyLists == {<<>>, <<[table |-> NameAb, from |-> <<"c">>, to |-> <<"c">>]>>}

\* SELECT COUNT(*) answers
RowCounts == {0, 150, 450}

\* number of rows of PRAGMA index_list
IndexCounts == {0, 1}

\* what the statements on one table answer
TableAnswers ==
    [columns : ColumnLists, rowCount : RowCounts,
     foreignKeys : ForeignKeyLists, indexes : IndexCounts]

\* every statement on a table whose name needs quoting throws: nothing of
\* the table is ever read
NoAnswers == [columns |-> <<>>, rowCount |-> 0, foreignKeys |-> <<>>, indexes |-> 0]

\* the increasing index sequences into TableNames of length k, starting at from
RECURSIVE Picks(_, _)
Picks(from, k) ==
    IF k = 0 THEN {<<>>}
    ELSE UNION {{<<i>> \o p : p \in Picks(i + 1, k - 1)} : i \in from..Len(TableNames)}

NameLists == UNION {Picks(1, k) : k \in 0..MaxTables}

\* the database with the tables named by pick, in the order of sqlite_master
DatabaseOf(pick, answers) ==
    [j \in 1..Len(pick) |->
        [name |-> TableNames[pick[j]],
         columns |-> answers[j].columns,
         rowCount |-> answers[j].rowCount,
         foreignKeys |-> answers[j].foreignKeys,
         indexes |-> answers[j].indexes]]

AnswersFor(pick) ==
    {a \in [1..Len(pick) -> TableAnswers \cup {NoAnswers}] :
        \A j \in 1..Len(pick) :
            IF QueryThrows(TableNames[pick[j]]) THEN a[j] = NoAnswers ELSE a[j] \in TableAnswers}

----------------------------------------------------------------------------
(* DatabaseHealth: SchemaGraphRenderer.tsx:504-1006 *)

\* lines 541-577: what one iteration of the per-table loop pushes
TableStatsOf(t) ==
    [name |-> t.name,
     rowCount |-> t.rowCount,
     hasIndex |-> t.indexes > 0,
     hasPrimaryKey |-> \E i \in 1..Len(t.columns) : t.columns[i].pk,
     hasForeignKey |-> Len(t.foreignKeys) > 0,
     nullableColumns |-> Cardinality({i \in 1..Len(t.columns) : ~t.columns[i].notnull}),
     totalColumns |-> Len(t.columns)]

\* lines 539-582: the per-table loop; threw is set when a db.exec throws
RECURSIVE PerTableAnalysis(_, _)
PerTableAnalysis(ts, acc) ==
    IF ts = <<>> THEN acc
    ELSE LET t == Head(ts) IN
         IF QueryThrows(t.name) THEN [acc EXCEPT !.threw = TRUE]
         ELSE PerTableAnalysis(Tail(ts),
                [threw |-> FALSE,
                 tableStats |-> Append(acc.tableStats, TableStatsOf(t)),
                 relationships |-> acc.relationships \cup
                     {<<t.name, t.foreignKeys[i].from, t.foreignKeys[i].table,
                        t.foreignKeys[i].to>> : i \in 1..Len(t.foreignKeys)},
                 tablesWithForeignKeys |-> acc.tablesWithForeignKeys \cup
                     {t.foreignKeys[i].table : i \in 1..Len(t.foreignKeys)},
                 totalRows |-> acc.totalRows + t.rowCount,
                 totalColumns |-> acc.totalColumns + Len(t.columns)])

EmptyAcc ==
    [threw |-> FALSE, tableStats |-> <<>>, relationships |-> {},
     tablesWithForeignKeys |-> {}, totalRows |-> 0, totalColumns |-> 0]

\* lines 520-591: the statistics (totalIndexes, a display figure read by one
\* more count query, is left out)
DbStatisticsOf(db, acc) ==
    [totalTables |-> Len(db),
     totalRows |-> acc.totalRows,
     totalColumns |-> acc.totalColumns,
     totalRelationships |-> Cardinality(acc.relationships),
     avgRowsPerTable |-> IF Len(db) # 0 THEN Round(acc.totalRows, Len(db)) ELSE 0,
     orphanedTables |->
        Cardinality({i \in 1..Len(db) :
            /\ db[i].name \notin acc.tablesWithForeignKeys
            /\ ~(\E j \in 1..Len(acc.tableStats) :
                    /\ acc.tableStats[j].name = db[i].name
                    /\ \A k \in 1..(j - 1) : acc.tableStats[k].name # db[i].name
                    /\ acc.tableStats[j].hasForeignKey)}),
     tableStats |-> acc.tableStats]

\* lines 687-703: detectNamingPatterns; the three regular expressions
\* /^[a-z]+(_[a-z]+)*$/
IsSnakeCase(name) ==
    /\ Len(name) > 0
    /\ \A i \in 1..Len(name) : name[i] \in Lower \cup {"_"}
    /\ name[1] \in Lower /\ name[Len(name)] \in Lower
    /\ \A i \in 1..(Len(name) - 1) : ~(name[i] = "_" /\ name[i + 1] = "_")
\* /^[a-z]+([A-Z][a-z]*)*$/
IsCamelCase(name) ==
    /\ Len(name) > 0
    /\ \A i \in 1..Len(name) : name[i] \in Lower \cup Upper
    /\ name[1] \in Lower
\* /^([A-Z][a-z]*)+$/
IsPascalCase(name) ==
    /\ Len(name) > 0
    /\ \A i \in 1..Len(name) : name[i] \in Lower \cup Upper
    /\ name[1] \in Upper

\* detectNamingPatterns without the early return for fewer than two names
detectNamingPatternsNoShortcut(tableNames) ==
    IF \A i \in 1..Len(tableNames) : IsSnakeCase(tableNames[i])
         THEN [consistent |-> TRUE, pattern |-> "snake_case"]
    ELSE IF \A i \in 1..Len(tableNames) : IsCamelCase(tableNames[i])
         THEN [consistent |-> TRUE, pattern |-> "camelCase"]
    ELSE IF \A i \in 1..Len(tableNames) : IsPascalCase(tableNames[i])
         THEN [consistent |-> TRUE, pattern |-> "PascalCase"]
    ELSE [consistent |-> FALSE, pattern |-> "none"]

detectNamingPatterns(tableNames) ==
    IF Len(tableNames) < 2 THEN [consistent |-> TRUE, pattern |-> "none"]
    ELSE IF \A i \in 1..Len(tableNames) : IsSnakeCase(tableNames[i])
         THEN [consistent |-> TRUE, pattern |-> "snake_case"]
    ELSE IF \A i \in 1..Len(tableNames) : IsCamelCase(tableNames[i])
         THEN [consistent |-> TRUE, pattern |-> "camelCase"]
    ELSE IF \A i \in 1..Len(tableNames) : IsPascalCase(tableNames[i])
         THEN [consistent |-> TRUE, pattern |-> "PascalCase"]
    ELSE [consistent |-> FALSE, pattern |-> "none"]

\* calculateSizeDistribution without the early return for at most one table
calculateSizeDistributionAnyCount(tableStats) ==
    LET totalRows == SumSeq([i \in 1..Len(tableStats) |-> tableStats[i].rowCount]) IN
    IF totalRows = 0 THEN [p |-> 0, q |-> 1]
    ELSE [p |-> MaxOf({tableStats[i].rowCount : i \in 1..Len(tableStats)}), q |-> totalRows]

\* lines 705-716: calculateSizeDistribution, as the fraction p/q
calculateSizeDistribution(tableStats) ==
    LET totalRows == SumSeq([i \in 1..Len(tableStats) |-> tableStats[i].rowCount]) IN
    IF Len(tableStats) <= 1 THEN [p |-> 0, q |-> 1]
    ELSE IF totalRows = 0 THEN [p |-> 0, q |-> 1]
    ELSE [p |-> MaxOf({tableStats[i].rowCount : i \in 1..Len(tableStats)}), q |-> totalRows]

\* Math.round(100 - (p / q * k)); 0/0 is NaN and Math.round(NaN) is NaN
ScoreOf(p, q, k) == IF q = 0 THEN NaN ELSE Num(Round(100 * q - p * k, q))

\* lines 598-608
StructureCheck(stats) ==
    [id |-> "structure",
     status |-> IF stats.totalRelationships > 0 THEN "success" ELSE "warning",
     score |-> IF stats.totalRelationships > 0 THEN Num(100) ELSE Num(60)]

\* PrimaryKeyStatus with the boundary moved: exactly half is still a warning
PrimaryKeyStatusHalfWarns(k, n) ==
    IF k = 0 THEN "success" ELSE IF 2 * k <= n THEN "warning" ELSE "error"

\* line 616: the status of the primary-key check, k tables of n without one
PrimaryKeyStatus(k, n) ==
    IF k = 0 THEN "success" ELSE IF 2 * k < n THEN "warning" ELSE "error"

\* lines 610-621
PrimaryKeyCheck(stats) ==
    LET tablesWithoutPK == SelectSeq(stats.tableStats, LAMBDA t : ~t.hasPrimaryKey) IN
    [id |-> "primary_keys",
     status |-> PrimaryKeyStatus(Len(tablesWithoutPK), stats.totalTables),
     score |-> IF Len(tablesWithoutPK) = 0 THEN Num(100)
               ELSE ScoreOf(Len(tablesWithoutPK), stats.totalTables, 100)]

\* IndexCheck with all tables as the divisor, not those of more than 100 rows
IndexCheckAllTables(stats) ==
    LET tablesWithoutIndices ==
            SelectSeq(stats.tableStats, LAMBDA t : ~t.hasIndex /\ t.rowCount > 100) IN
    [id |-> "indices",
     status |-> IF Len(tablesWithoutIndices) = 0 THEN "success" ELSE "warning",
     score |-> IF Len(tablesWithoutIndices) = 0 THEN Num(100)
               ELSE ScoreOf(Len(tablesWithoutIndices), Len(stats.tableStats), 70)]

\* lines 623-634
IndexCheck(stats) ==
    LET tablesWithoutIndices ==
            SelectSeq(stats.tableStats, LAMBDA t : ~t.hasIndex /\ t.rowCount > 100)
        manyRows == SelectSeq(stats.tableStats, LAMBDA t : t.rowCount > 100) IN
    [id |-> "indices",
     status |-> IF Len(tablesWithoutIndices) = 0 THEN "success" ELSE "warning",
     score |-> IF Len(tablesWithoutIndices) = 0 THEN Num(100)
               ELSE ScoreOf(Len(tablesWithoutIndices), Len(manyRows), 70)]

\* NullableCheck with the columns that are NOT NULL counted as the nullable ones
NullableCheckNotNull(stats) ==
    LET q == stats.totalColumns
        p == q - SumSeq([i \in 1..Len(stats.tableStats) |-> stats.tableStats[i].nullableColumns]) IN
    [id |-> "nullable",
     status |-> IF q # 0 /\ 10 * p < 3 * q THEN "success"
                ELSE IF q # 0 /\ 10 * p < 6 * q THEN "warning" ELSE "info",
     score |-> ScoreOf(p, q, 100)]

\* lines 636-645: nullableRatio = p / q; every comparison with NaN is false
NullableCheck(stats) ==
    LET p == SumSeq([i \in 1..Len(stats.tableStats) |-> stats.tableStats[i].nullableColumns])
        q == stats.totalColumns IN
    [id |-> "nullable",
     status |-> IF q # 0 /\ 10 * p < 3 * q THEN "success"
                ELSE IF q # 0 /\ 10 * p < 6 * q THEN "warning" ELSE "info",
     score |-> ScoreOf(p, q, 100)]

\* lines 647-658
NamingCheck(tableNames) ==
    LET tableNamePatterns == detectNamingPatterns(tableNames) IN
    [id |-> "naming",
     status |-> IF tableNamePatterns.consistent THEN "success" ELSE "info",
     score |-> IF tableNamePatterns.consistent THEN Num(100) ELSE Num(70)]

\* lines 660-670
SizeDistributionCheck(stats) ==
    LET sizeDistribution == calculateSizeDistribution(stats.tableStats) IN
    [id |-> "size_distribution",
     status |-> IF 10 * sizeDistribution.p < 7 * sizeDistribution.q THEN "success"
                ELSE IF 10 * sizeDistribution.p < 9 * sizeDistribution.q THEN "warning"
                ELSE "info",
     score |-> ScoreOf(sizeDistribution.p, sizeDistribution.q, 80)]

\* lines 596-670: the checks, in the order they are pushed
ChecksOf(stats, tableNames) ==
    <<StructureCheck(stats), PrimaryKeyCheck(stats), IndexCheck(stats),
      NullableCheck(stats), NamingCheck(tableNames), SizeDistributionCheck(stats)>>

\* OverallOf with Math.floor in the place of Math.round
OverallOfFloor(checks) ==
    IF \E i \in 1..Len(checks) : IsNaN(checks[i].score) THEN NaN
    ELSE IF Len(checks) = 0 THEN NaN
    ELSE Num(RoundFloor(SumSeq([i \in 1..Len(checks) |-> checks[i].score.val]), Len(checks)))

\* line 673: Math.round(checks.reduce((sum, check) => sum + check.score, 0) / checks.length)
OverallOf(checks) ==
    IF \E i \in 1..Len(checks) : IsNaN(checks[i].score) THEN NaN
    ELSE IF Len(checks) = 0 THEN NaN
    ELSE Num(Round(SumSeq([i \in 1..Len(checks) |-> checks[i].score.val]), Len(checks)))

----------------------------------------------------------------------------
(* What DatabaseHealth renders from its state *)

\* TableScore with the 20 taken off for every table without an index
TableScoreAnyRowCount(table) ==
    100 - (IF ~table.hasPrimaryKey THEN 30 ELSE 0)
        - (IF ~table.hasIndex THEN 20 ELSE 0)
        - (IF 2 * table.nullableColumns > table.totalColumns THEN 10 ELSE 0)

\* lines 876-880: the health score of one table
TableScore(table) ==
    100 - (IF ~table.hasPrimaryKey THEN 30 ELSE 0)
        - (IF ~table.hasIndex /\ table.rowCount > 100 THEN 20 ELSE 0)
        - (IF 2 * table.nullableColumns > table.totalColumns THEN 10 ELSE 0)

\* lines 986-1003: getRecommendation
getRecommendation(checkId) ==
    CASE checkId = "primary_keys" ->
            "Add primary keys to all tables to improve query performance and ensure data integrity."
      [] checkId = "indices" ->
            "Create indices on frequently queried columns, especially in tables with many rows."
      [] checkId = "nullable" ->
            "Consider making more columns NOT NULL to improve data quality and query performance."
      [] checkId = "naming" ->
            "Standardize table and column naming conventions (e.g., use snake_case consistently)."
      [] checkId = "structure" ->
            "Define proper relationships between tables using foreign keys to improve data integrity."
      [] checkId = "size_distribution" ->
            "Consider normalizing large tables further to distribute data more evenly."
      [] OTHER ->
            "Review database design and apply best practices for optimal performance."

\* check.score < 80, which is false of NaN
ScoreBelow80(check) == IsNum(check.score) /\ check.score.val < 80

\* lines 963-972: the list of recommendations, shown once the pass is over
Recommendations ==
    IF healthLoading THEN <<>>
    ELSE LET low == SelectSeq(healthChecks, ScoreBelow80) IN
         [i \in 1..Len(low) |-> [id |-> low[i].id, text |-> getRecommendation(low[i].id)]]

\* lines 974-978: the alert "No critical issues found" is shown
NoCriticalIssuesShown ==
    ~healthLoading /\ SelectSeq(healthChecks, ScoreBelow80) = <<>>

\* lines 869-880: the scores of the table health details, shown once the
\* pass is over and dbStats holds tables
TableScores ==
    IF healthLoading \/ dbStats = <<>> THEN <<>>
    ELSE [i \in 1..Len(dbStats[1].tableStats) |-> TableScore(dbStats[1].tableStats[i])]

\* what the component shows once a pass is over
HealthShown ==
    [overallScore |-> overallScore, healthChecks |-> healthChecks,
     dbStats |-> dbStats, tableScores |-> TableScores]

\* lines 510-684: the effect of DatabaseHealth for the db prop db.  The async
\* function awaits nothing, so the pass runs to its end within the effect.
\* A db.exec that throws leaves the three results as they were (line 676).
analyzeDatabase(db) ==
    LET acc == PerTableAnalysis(db, EmptyAcc)
        stats == DbStatisticsOf(db, acc)
        checks == ChecksOf(stats, [i \in 1..Len(db) |-> db[i].name]) IN
    /\ healthDb' = <<db>>
    /\ healthLoading' = FALSE
    /\ IF acc.threw
       THEN UNCHANGED <<healthChecks, dbStats, overallScore>>
       ELSE /\ dbStats' = <<stats>>
            /\ overallScore' = OverallOf(checks)
            /\ healthChecks' = checks

----------------------------------------------------------------------------

(* DatabaseHealth mounted on one database: Spec *)

HealthInit ==
    /\ healthDb = <<>>
    /\ healthLoading = TRUE
    /\ healthChecks = <<>>
    /\ dbStats = <<>>
    /\ overallScore = Num(0)
    /\ healthPrev = <<>>

SaInit ==
    /\ saFile = <<>>
    /\ saPending = <<>>
    /\ saTables = <<>>
    /\ saLoading = FALSE
    /\ saError = Null
    /\ saFinished = <<>>
    /\ appFile = <<>>
    /\ appDb = <<>>
    /\ appError = Null
    /\ appPending = <<>>

StatsInit ==
    /\ maDb = <<>>
    /\ maStats = <<>>
    /\ maLoading = FALSE
    /\ maRejected = FALSE
    /\ maHasStddev = FALSE

AaInit ==
    /\ aaDb = <<>>
    /\ aaTables = <<>>
    /\ selectedTable = <<>>
    /\ aaColumns = <<>>
    /\ selectedColumns = <<>>
    /\ chartData = Null
    /\ insights = <<>>
    /\ correlations = <<>>

LayoutInit ==
    /\ graphTables = <<>>
    /\ schemaTables = <<>>
    /\ relationships = <<>>
    /\ graphPrev = <<>>

(***************************************************************************)
(* GeminiChat.  A message is its role and what its content is: the greeting *)
(* of useState, the initMessage of a database, the summary of a database,  *)
(* the n-th text the user sent, a reply of the model or an error text.     *)
(***************************************************************************)
MaxSendCalls == 3

Message(role, kind, n) == [role |-> role, kind |-> kind, n |-> n]

\* GeminiChat.tsx:107-113
Greeting == Message("assistant", "greeting", 0)

\* GeminiChat.tsx:171-179
InitMessage == Message("assistant", "init", 0)

\* GeminiChat.tsx:185: !input.trim()
Blank(input) == input \in {"", " "}

ChatInit ==
    /\ chatDb = <<>>
    /\ messages = <<Greeting>>
    /\ chatInput = ""
    /\ chatLoading = FALSE
    /\ apiError = Null
    /\ startChatHistory = <<>>
    /\ sentMessage = <<>>
    /\ sendCalls = 0

\* GeminiChat.tsx:29-36: the shipped key is the placeholder, so genAI is null
Init == HealthInit /\ SaInit /\ StatsInit /\ AaInit /\ LayoutInit /\ ChatInit /\ genAI = FALSE

\* GeminiChat.tsx:29-36: the build has a key (genAI is a client) or has none
InitChat == HealthInit /\ SaInit /\ StatsInit /\ AaInit /\ LayoutInit /\ ChatInit
            /\ genAI \in BOOLEAN

\* GeminiChat.tsx:155-182: the two effects on [db, tableInfo], in their order.
\* App passes an array as tableInfo, so `db && tableInfo` is `db`.  The first queues an
\* append of the summary, the second queues the replacement of the list.
MessagesAfterEffects(db, msgs) ==
    LET summary == IF db = <<>> THEN "" ELSE "summary"  \* generateDbSummary, 125-151
        first == IF db # <<>> /\ Len(msgs) = 1 /\ summary # ""
                 THEN Append(msgs, Message("assistant", "summary", 0))
                 ELSE msgs
    IN  IF db # <<>> THEN <<InitMessage>> ELSE first

\* GeminiChat.tsx:104, 155-182: the parent renders with another db or
\* another tableInfo
ChatPropsChanged ==
    /\ \E db \in {<<>>, <<"db1">>, <<"db2">>} :
          /\ chatDb' = db
          /\ messages' = MessagesAfterEffects(db, messages)
    /\ UNCHANGED <<genAI, chatInput, chatLoading, apiError, startChatHistory, sentMessage,
                   sendCalls>>
    /\ UNCHANGED <<appFile, appDb, appError, appPending, saFile, saPending, saTables,
                   saLoading, saError, saFinished, healthVars, statsVars, aaVars,
                   layoutVars>>

\* GeminiChat.tsx:440-443: onChange of the input field, disabled while loading.
\* The texts are the empty one, white space only and a question.
TypeInput ==
    /\ ~chatLoading
    /\ \E text \in {"", " ", "q"} : chatInput' = text
    /\ UNCHANGED <<genAI, chatDb, messages, chatLoading, apiError, startChatHistory,
                   sentMessage, sendCalls>>
    /\ UNCHANGED <<appFile, appDb, appError, appPending, saFile, saPending, saTables,
                   saLoading, saError, saFinished, healthVars, statsVars, aaVars,
                   layoutVars>>

\* GeminiChat.tsx:253-260: the history of startChat, from the messages of the
\* render the handler closed over
HistoryOf(msgs) ==
    LET kept == IF Len(msgs) > 0 /\ msgs[1].role = "assistant" THEN Tail(msgs) ELSE msgs
    IN  [i \in 1..Len(kept) |->
            [role |-> IF kept[i].role = "assistant" THEN "model" ELSE kept[i].role,
             kind |-> kept[i].kind, n |-> kept[i].n]]

\* GeminiChat.tsx:184-282: handleSend up to `await chat.sendMessage(...)`.
\* The field and the button are disabled while loading (443, 453).
handleSend ==
    LET userMessage == Message("user", "user", sendCalls + 1) IN
    /\ ~chatLoading
    /\ sendCalls < MaxSendCalls
    /\ sendCalls' = sendCalls + 1
    /\ IF Blank(chatInput)
       THEN UNCHANGED <<messages, chatInput, chatLoading, apiError, startChatHistory,
                        sentMessage>>
       ELSE IF ~genAI
       THEN /\ apiError' = [tag |-> "string"]
            /\ UNCHANGED <<messages, chatInput, chatLoading, startChatHistory,
                           sentMessage>>
       ELSE /\ apiError' = Null
            /\ messages' = Append(messages, userMessage)
            /\ chatInput' = ""
            /\ chatLoading' = TRUE
            /\ startChatHistory' = <<HistoryOf(messages)>>
            /\ sentMessage' = <<userMessage>>
    /\ UNCHANGED <<genAI, chatDb>>
    /\ UNCHANGED <<appFile, appDb, appError, appPending, saFile, saPending, saTables,
                   saLoading, saError, saFinished, healthVars, statsVars, aaVars,
                   layoutVars>>

\* GeminiChat.tsx:277-286, 319-321: sendMessage resolves
ReplyArrives ==
    /\ chatLoading
    /\ messages' = Append(messages, Message("assistant", "reply", 0))
    /\ chatLoading' = FALSE
    /\ UNCHANGED <<genAI, chatDb, chatInput, apiError, startChatHistory, sentMessage,
                   sendCalls>>
    /\ UNCHANGED <<appFile, appDb, appError, appPending, saFile, saPending, saTables,
                   saLoading, saError, saFinished, healthVars, statsVars, aaVars,
                   layoutVars>>

\* GeminiChat.tsx:287-321: startChat or sendMessage throws; the kinds are what
\* the handler looks for in the error's message (296-308)
ErrorReplyArrives ==
    /\ chatLoading
    /\ \E kind \in {"API key", "network", "quota", "role", "other"} :
          apiError' = IF kind \in {"API key", "role"} THEN [tag |-> "string"] ELSE apiError
    /\ messages' = Append(messages, Message("assistant", "error", 0))
    /\ chatLoading' = FALSE
    /\ UNCHANGED <<genAI, chatDb, chatInput, startChatHistory, sentMessage, sendCalls>>
    /\ UNCHANGED <<appFile, appDb, appError, appPending, saFile, saPending, saTables,
                   saLoading, saError, saFinished, healthVars, statsVars, aaVars,
                   layoutVars>>

NextChat == ChatPropsChanged \/ TypeInput \/ handleSend \/ ReplyArrives \/ ErrorReplyArrives

SpecChat == InitChat /\ [][NextChat]_vars


\* the component is mounted with a database and its effect runs
MountHealth ==
    /\ healthDb = <<>>
    /\ \E pick \in NameLists : \E answers \in AnswersFor(pick) :
          analyzeDatabase(DatabaseOf(pick, answers))
    /\ UNCHANGED healthPrev
    /\ UNCHANGED <<saVars, statsVars, aaVars, layoutVars>>

Next == MountHealth

Spec == Init /\ [][Next]_vars

----------------------------------------------------------------------------
(* DatabaseHealth whose db prop changes while it is mounted: SpecRerun *)

MaxRerunTables == 1

RerunNameLists == UNION {Picks(1, k) : k \in 0..MaxRerunTables}

\* the effect runs again for every new db prop (its dependency list, line 684)
DbChanged ==
    /\ \E pick \in RerunNameLists : \E answers \in AnswersFor(pick) :
          analyzeDatabase(DatabaseOf(pick, answers))
    /\ UNCHANGED healthPrev
    /\ UNCHANGED <<saVars, statsVars, aaVars, layoutVars>>

NextRerun == DbChanged

SpecRerun == Init /\ [][NextRerun]_vars

----------------------------------------------------------------------------
(* DatabaseHealth mounted on databases that differ in their table names:  *)
(* SpecNaming                                                              *)

MaxNamingTables == 3

\* "aBa", "AbAb", "Bb", "B_a": with the names above, names of one, two and
\* no pattern; no two of them differ in case only
NameCamel == <<"a", "B", "a">>
NamePascalTwoWords == <<"A", "b", "A", "b">>
NamePascalOther == <<"B", "b">>
NameMixed == <<"B", "_", "a">>
NamingNames ==
    <<NameAb, NamePascal, NameSnake, NameCamel, NamePascalTwoWords, NamePascalOther, NameMixed>>

\* the increasing index sequences into NamingNames of length k, starting at from
RECURSIVE NamingPicks(_, _)
NamingPicks(from, k) ==
    IF k = 0 THEN {<<>>}
    ELSE UNION {{<<i>> \o p : p \in NamingPicks(i + 1, k - 1)} : i \in from..Len(NamingNames)}

NamingNameLists == UNION {NamingPicks(1, k) : k \in 0..MaxNamingTables}

\* tables of one column that differ in their rows only
NamingAnswers ==
    [columns : {<<[name |-> <<"c">>, type |-> "INTEGER", notnull |-> TRUE, pk |-> TRUE]>>},
     rowCount : {0, 150}, foreignKeys : {<<>>}, indexes : {0}]

NamedDatabaseOf(pick, answers) ==
    [j \in 1..Len(pick) |->
        [name |-> NamingNames[pick[j]],
         columns |-> answers[j].columns,
         rowCount |-> answers[j].rowCount,
         foreignKeys |-> answers[j].foreignKeys,
         indexes |-> answers[j].indexes]]

MountHealthNamed ==
    /\ healthDb = <<>>
    /\ \E pick \in NamingNameLists : \E answers \in [1..Len(pick) -> NamingAnswers] :
          analyzeDatabase(NamedDatabaseOf(pick, answers))
    /\ UNCHANGED healthPrev
    /\ UNCHANGED <<saVars, statsVars, aaVars, layoutVars>>

NextNaming == MountHealthNamed

SpecNaming == Init /\ [][NextNaming]_vars

----------------------------------------------------------------------------

(* DatabaseHealth mounted on databases that differ in their foreign keys: *)
(* SpecStructure                                                           *)

MaxStructureTables == 2
MaxForeignKeys == 2

\* "AB": the table "ab" as a REFERENCES clause may spell it.  SQLite finds
\* the table without regard to case, and PRAGMA foreign_key_list gives the
\* name as the clause spells it.
NameAbUpper == <<"A", "B">>
StructureNames == <<NameAb, NamePascal>>
ReferencedNames == {NameAb, NameAbUpper, NamePascal}

\* the rows of PRAGMA foreign_key_list of one table: none, one or several
\* keys, to the table itself, to another table or to a table not there
StructureForeignKeyLists ==
    UNION {[1..n -> [table : ReferencedNames, from : {<<"c">>}, to : {<<"c">>}]] :
            n \in 0..MaxForeignKeys}

StructureAnswers ==
    [columns : {<<[name |-> <<"c">>, type |-> "INTEGER", notnull |-> TRUE, pk |-> TRUE]>>},
     rowCount : {0}, foreignKeys : StructureForeignKeyLists, indexes : {0}]

StructureNameLists ==
    {p \in UNION {[1..k -> 1..Len(StructureNames)] : k \in 0..MaxStructureTables} :
        \A i, j \in 1..Len(p) : i < j => p[i] < p[j]}

StructureDatabaseOf(pick, answers) ==
    [j \in 1..Len(pick) |->
        [name |-> StructureNames[pick[j]],
         columns |-> answers[j].columns,
         rowCount |-> answers[j].rowCount,
         foreignKeys |-> answers[j].foreignKeys,
         indexes |-> answers[j].indexes]]

MountHealthStructure ==
    /\ healthDb = <<>>
    /\ \E pick \in StructureNameLists : \E answers \in [1..Len(pick) -> StructureAnswers] :
          analyzeDatabase(StructureDatabaseOf(pick, answers))
    /\ UNCHANGED healthPrev
    /\ UNCHANGED <<saVars, statsVars, aaVars, layoutVars>>

NextStructure == MountHealthStructure

SpecStructure == Init /\ [][NextStructure]_vars

----------------------------------------------------------------------------

(* SqlAnalyzer: SqlAnalyzer.tsx:20-67; SpecIntrospect *)

MaxFileTables == 2
MaxPendingLoads == 2

\* the files: databases whose tables have one column and differ in their
\* foreign keys
FileAnswers ==
    [columns : {<<[name |-> <<"c">>, type |-> "INTEGER", notnull |-> FALSE, pk |-> TRUE]>>},
     rowCount : {0}, foreignKeys : ForeignKeyLists, indexes : {0}]

FileAnswersFor(pick) ==
    {a \in [1..Len(pick) -> FileAnswers \cup {NoAnswers}] :
        \A j \in 1..Len(pick) :
            IF QueryThrows(TableNames[pick[j]]) THEN a[j] = NoAnswers ELSE a[j] \in FileAnswers}

FileNameLists == UNION {Picks(1, k) : k \in 0..MaxFileTables}

\* lines 42-56: the TableInfo of one table
TableInfoOf(t) ==
    [name |-> t.name,
     columns |-> [i \in 1..Len(t.columns) |->
                    [name |-> t.columns[i].name, type |-> t.columns[i].type,
                     notnull |-> t.columns[i].notnull, pk |-> t.columns[i].pk]],
     foreignKeys |-> [i \in 1..Len(t.foreignKeys) |->
                    [from |-> t.foreignKeys[i].from, to |-> t.foreignKeys[i].to,
                     table |-> t.foreignKeys[i].table]]]

\* lines 36-57: the loop over the table names inside the one try block
RECURSIVE Introspect(_, _)
Introspect(ts, acc) ==
    IF ts = <<>> THEN acc
    ELSE IF QueryThrows(Head(ts).name) THEN [acc EXCEPT !.threw = TRUE]
    ELSE Introspect(Tail(ts),
            [threw |-> FALSE, tables |-> Append(acc.tables, TableInfoOf(Head(ts)))])

RemoveAt(s, i) == [j \in 1..(Len(s) - 1) |-> IF j < i THEN s[j] ELSE s[j + 1]]

\* lines 26-34: a new file prop starts loadDb, which runs up to its first await
StartLoad ==
    /\ Len(saPending) < MaxPendingLoads
    /\ \E pick \in FileNameLists : \E answers \in FileAnswersFor(pick) :
          /\ saFile' = <<DatabaseOf(pick, answers)>>
          /\ saPending' = Append(saPending, DatabaseOf(pick, answers))
    /\ saLoading' = TRUE
    /\ saError' = Null
    /\ UNCHANGED <<saTables, saFinished, appVars, healthVars, statsVars, aaVars, layoutVars>>

\* lines 35-63: a suspended loadDb resumes and runs to its end
FinishLoad ==
    \E i \in 1..Len(saPending) :
        LET res == Introspect(saPending[i], [threw |-> FALSE, tables |-> <<>>]) IN
        /\ saPending' = RemoveAt(saPending, i)
        /\ saFinished' = <<saPending[i]>>
        /\ IF res.threw
           THEN saError' = [tag |-> "string"] /\ UNCHANGED saTables
           ELSE saTables' = res.tables /\ UNCHANGED saError
        /\ saLoading' = FALSE
        /\ UNCHANGED <<saFile, appVars, healthVars, statsVars, aaVars, layoutVars>>

NextIntrospect == StartLoad \/ FinishLoad

SpecIntrospect == Init /\ [][NextIntrospect]_vars

\* the tables of a file whose statements do not throw, in order
RECURSIVE Introspectable(_)
Introspectable(ts) ==
    IF ts = <<>> THEN <<>>
    ELSE IF QueryThrows(Head(ts).name) THEN Introspectable(Tail(ts))
    ELSE <<Head(ts).name>> \o Introspectable(Tail(ts))

\* C3: when a loadDb has run to its end, the tables it returned are the
\* tables of its file whose metadata queries succeed, in order, and no
\* error is set by it.
C3_PartialSuccess ==
    (saFinished # <<>> /\ saPending = <<>> /\ saFile = saFinished) =>
        /\ saError = Null
        /\ [i \in 1..Len(saTables) |-> saTables[i].name] = Introspectable(saFinished[1])

----------------------------------------------------------------------------
(* App.handleFile and SqlAnalyzer.loadDb on a sequence of selected files:  *)
(* SpecFiles.  A file is a record [readable, tables]: new SQL.Database     *)
(* throws on a file that is not a database.  The Schema tab is the active  *)
(* one, so SqlAnalyzer is mounted while file and db are both set           *)
(* (App.tsx:262-264).                                                      *)

\* the files: not a database, a database without tables, and databases of
\* one table whose statements succeed
Files ==
    {[readable |-> FALSE, tables |-> <<>>], [readable |-> TRUE, tables |-> <<>>]}
    \cup {[readable |-> TRUE, tables |-> DatabaseOf(<<n>>, <<a>>)] :
            n \in {1, 2}, a \in {b \in FileAnswers : b.foreignKeys = <<>>}}

SqlAnalyzerMounted == appFile # <<>> /\ appDb # <<>>

\* App.tsx:126-128 and SqlAnalyzer.tsx:26-34: handleFile(f) runs up to its
\* first await; a mounted SqlAnalyzer gets the new file prop and its loadDb
\* runs up to its first await
SelectFile ==
    /\ Len(appPending) < MaxPendingLoads
    /\ Len(saPending) < MaxPendingLoads
    /\ \E f \in Files :
          /\ appFile' = <<f>>
          /\ appPending' = Append(appPending, f)
          /\ saFile' = <<f>>
          /\ IF appDb # <<>>
             THEN /\ saPending' = Append(saPending, f)
                  /\ saLoading' = TRUE
                  /\ saError' = Null
             ELSE UNCHANGED <<saPending, saLoading, saError>>
    /\ appError' = Null
    /\ UNCHANGED <<appDb, chatVars, saTables, saFinished, healthVars, statsVars, aaVars,
                   layoutVars>>

\* App.tsx:129-139: a suspended handleFile resumes and runs to its end.
\* With setDb(db) on a null db SqlAnalyzer is mounted and its loadDb starts
\* on the file prop; with setDb(null) it is unmounted and its state dropped.
HandleFileResumes ==
    \E i \in 1..Len(appPending) :
        LET f == appPending[i] IN
        /\ appPending' = RemoveAt(appPending, i)
        /\ IF f.readable
           THEN /\ appDb' = <<f.tables>>
                /\ UNCHANGED appError
                /\ IF appDb = <<>>
                   THEN /\ saPending' = <<appFile[1]>>
                        /\ saLoading' = TRUE
                        /\ saError' = Null
                        /\ saTables' = <<>>
                   ELSE UNCHANGED <<saPending, saLoading, saError, saTables>>
           ELSE /\ appDb' = <<>>
                /\ appError' = [tag |-> "string"]
                /\ saPending' = <<>>
                /\ saLoading' = FALSE
                /\ saError' = Null
                /\ saTables' = <<>>
        /\ UNCHANGED <<appFile, chatVars, saFile, saFinished, healthVars, statsVars, aaVars,
                       layoutVars>>

\* SqlAnalyzer.tsx:35-63: a suspended loadDb resumes and runs to its end
LoadDbResumes ==
    \E i \in 1..Len(saPending) :
        LET f == saPending[i]
            res == Introspect(f.tables, [threw |-> FALSE, tables |-> <<>>]) IN
        /\ saPending' = RemoveAt(saPending, i)
        /\ saFinished' = <<f>>
        /\ IF ~f.readable \/ res.threw
           THEN saError' = [tag |-> "string"] /\ UNCHANGED saTables
           ELSE saTables' = res.tables /\ UNCHANGED saError
        /\ saLoading' = FALSE
        /\ UNCHANGED <<saFile, appVars, healthVars, statsVars, aaVars, layoutVars>>

NextFiles == SelectFile \/ HandleFileResumes \/ LoadDbResumes

SpecFiles == Init /\ [][NextFiles]_vars

----------------------------------------------------------------------------

(* Row data.  The statements are aggregates, so a table's rows are a bag:  *)
(* a function from the distinct rows (tuples of cells, a cell is Null,     *)
(* Num(v) or TextCell) to the number of times each occurs.                 *)

MaxDataColumns == 2
MaxDistinctRows == 2
DataValues == {1, 100}
RowMultiplicities == {1, 4, 10}

Cells == {Null} \cup {Num(v) : v \in DataValues}
\* the text 'x': SUM, AVG and the arithmetic operators take a text that does
\* not look like a number for 0
TextCell == [tag |-> "text", val |-> 0]
RowsOfWidth(w) == [1..w -> Cells]
BagsOfWidth(w) ==
    UNION {[D -> RowMultiplicities] :
            D \in {E \in SUBSET RowsOfWidth(w) : Cardinality(E) <= MaxDistinctRows}}

RECURSIVE SetToSeq(_)
SetToSeq(S) ==
    IF S = {} THEN <<>>
    ELSE LET x == CHOOSE y \in S : TRUE IN <<x>> \o SetToSeq(S \ {x})

\* the rows of bag whose cell c is not NULL / is NULL
NonNullRows(bag, c) == {r \in DOMAIN bag : r[c] # Null}
NullRows(bag, c) == {r \in DOMAIN bag : r[c] = Null}

\* the number of rows among R, each counted as often as it occurs
CountRows(bag, R) == LET rs == SetToSeq(R) IN SumSeq([i \in 1..Len(rs) |-> bag[rs[i]]])
\* SUM(col c) and SUM(col c * col d) over the rows R, none of them NULL there
SumCol(bag, R, c) ==
    LET rs == SetToSeq(R) IN SumSeq([i \in 1..Len(rs) |-> bag[rs[i]] * rs[i][c].val])
SumProd(bag, R, c, d) ==
    LET rs == SetToSeq(R) IN
    SumSeq([i \in 1..Len(rs) |-> bag[rs[i]] * rs[i][c].val * rs[i][d].val])
\* the distinct values of column c
DistinctValues(bag, c) == {r[c].val : r \in NonNullRows(bag, c)}
\* how often value v occurs in column c
Occurrences(bag, c, v) == CountRows(bag, {r \in NonNullRows(bag, c) : r[c].val = v})
MinOf(S) == CHOOSE m \in S : \A x \in S : m <= x

\* /int|real|float|double|numeric/i.test(type), on the declared types used
DeclaredTypes == {"INTEGER", "TEXT"}
IsNumericType(type) == type = "INTEGER"

ColumnLetters == <<"a", "b", "c", "d", "e">>
ColumnNames == [i \in 1..MaxDataColumns |-> <<ColumnLetters[i]>>]

----------------------------------------------------------------------------
(* MathematicalAnalysis: SqlAnalyzer.tsx:148-202; SpecStats *)

MaxStatsTables == 2

\* a number that is the fraction p / q, and one that is the square root of it
Frac(p, q) == [tag |-> "number", p |-> p, q |-> q]
SqrtFrac(p, q) == [tag |-> "number", sqrtOfP |-> p, sqrtOfQ |-> q]

\* line 173: MIN, MAX, AVG, COUNT(*) - COUNT(col), COUNT(DISTINCT col)
AggregateRow(bag, c) ==
    LET R == NonNullRows(bag, c)
        vals == DistinctValues(bag, c) IN
    [min |-> IF vals = {} THEN Null ELSE IF TextCell \in {r[c] : r \in R} THEN TextCell
             ELSE Num(MinOf(vals)),
     max |-> IF vals = {} THEN Null ELSE IF TextCell \in {r[c] : r \in R} THEN TextCell
             ELSE Num(MaxOf(vals)),
     avg |-> IF vals = {} THEN Null ELSE Frac(SumCol(bag, R, c), CountRows(bag, R)),
     nulls |-> Num(CountRows(bag, NullRows(bag, c))),
     unique |-> Num(Cardinality(vals))]

\* line 177: STDDEV(col) where the engine has such an aggregate: the
\* population deviation, sqrt((n * SUM(x*x) - SUM(x)^2) / n^2)
StddevValue(bag, c) ==
    LET R == NonNullRows(bag, c)
        n == CountRows(bag, R) IN
    IF n = 0 THEN Null
    ELSE SqrtFrac(n * SumProd(bag, R, c, c) - SumCol(bag, R, c) * SumCol(bag, R, c), n * n)

\* the value at 0-based position k of the ascending non-null values of column c
ValueAt(bag, c, k) ==
    CHOOSE v \in DistinctValues(bag, c) :
        /\ CountRows(bag, {r \in NonNullRows(bag, c) : r[c].val < v}) <= k
        /\ k < CountRows(bag, {r \in NonNullRows(bag, c) : r[c].val <= v})

\* MedianValue with the offset (count - 1) / 2
MedianValueLowerMiddle(bag, c) ==
    LET n == CountRows(bag, NonNullRows(bag, c)) IN
    IF n = 0 THEN Undefined ELSE Num(ValueAt(bag, c, (n - 1) \div 2))

\* lines 180-181: ORDER BY col LIMIT 1 OFFSET count / 2; no row gives undefined
MedianValue(bag, c) ==
    LET n == CountRows(bag, NonNullRows(bag, c)) IN
    IF n = 0 THEN Undefined ELSE Num(ValueAt(bag, c, n \div 2))

\* lines 183-184: GROUP BY col ORDER BY COUNT(*) DESC LIMIT 1; which of several
\* most frequent values comes first is the engine's choice (lowest says which)
ModeValue(bag, c, lowest) ==
    LET vals == DistinctValues(bag, c)
        top == {v \in vals : \A w \in vals : Occurrences(bag, c, w) <= Occurrences(bag, c, v)} IN
    IF vals = {} THEN Undefined
    ELSE IF lowest THEN Num(MinOf(top)) ELSE Num(MaxOf(top))

\* ColumnStatsOf with a try block of its own around each of the statements
ColumnStatsOfStepwise(t, c, hasStddev, lowest) ==
    LET col == t.columns[c]
        agg == AggregateRow(t.rows, c)
        base == [name |-> col.name, type |-> col.type,
                 min |-> Undefined, max |-> Undefined, avg |-> Undefined,
                 stddev |-> Undefined, median |-> Undefined, mode |-> Undefined,
                 nulls |-> Undefined, unique |-> Undefined] IN
    IF QueryThrows(col.name) THEN base
    ELSE IF IsNumericType(col.type)
    THEN [base EXCEPT !.min = agg.min, !.max = agg.max, !.avg = agg.avg,
                      !.nulls = agg.nulls, !.unique = agg.unique,
                      !.stddev = IF hasStddev THEN StddevValue(t.rows, c) ELSE Undefined,
                      !.median = MedianValue(t.rows, c),
                      !.mode = ModeValue(t.rows, c, lowest)]
    ELSE [base EXCEPT !.nulls = agg.nulls, !.unique = agg.unique]

\* lines 169-194: the statistics of column c of a table.  hasStddev says
\* whether the engine knows an aggregate named STDDEV; without it the
\* statement of line 177 throws and the catch of line 185 ends the block.
ColumnStatsOf(t, c, hasStddev, lowest) ==
    LET col == t.columns[c]
        agg == AggregateRow(t.rows, c)
        base == [name |-> col.name, type |-> col.type,
                 min |-> Undefined, max |-> Undefined, avg |-> Undefined,
                 stddev |-> Undefined, median |-> Undefined, mode |-> Undefined,
                 nulls |-> Undefined, unique |-> Undefined] IN
    IF IsNumericType(col.type)
    THEN IF QueryThrows(col.name) THEN base
         ELSE LET first == [base EXCEPT !.min = agg.min, !.max = agg.max, !.avg = agg.avg,
                                        !.nulls = agg.nulls, !.unique = agg.unique] IN
              IF ~hasStddev THEN first
              ELSE [first EXCEPT !.stddev = StddevValue(t.rows, c),
                                 !.median = MedianValue(t.rows, c),
                                 !.mode = ModeValue(t.rows, c, lowest)]
    ELSE IF QueryThrows(col.name) THEN base
         ELSE [base EXCEPT !.nulls = agg.nulls, !.unique = agg.unique]

\* lines 159-197: the loop over the tables; the statements of lines 161 and
\* 164 are outside every try block
RECURSIVE AnalyzeTables(_, _, _, _)
AnalyzeTables(ts, acc, hasStddev, lowest) ==
    IF ts = <<>> THEN acc
    ELSE LET t == Head(ts) IN
         IF QueryThrows(t.name) THEN [acc EXCEPT !.threw = TRUE]
         ELSE AnalyzeTables(Tail(ts),
                [threw |-> FALSE,
                 stats |-> Append(acc.stats,
                    [name |-> t.name,
                     rowCount |-> CountRows(t.rows, DOMAIN t.rows),
                     columnCount |-> Len(t.columns),
                     columns |-> [c \in 1..Len(t.columns) |->
                                    ColumnStatsOf(t, c, hasStddev, lowest)]])],
                hasStddev, lowest)

\* lines 153-202: the effect for the db prop db.  analyze() awaits nothing
\* and has no try block of its own: a throw rejects its promise, which
\* nothing handles, after setLoading(true) and before setStats.
analyze(db, hasStddev, lowest) ==
    LET res == AnalyzeTables(db, [threw |-> FALSE, stats |-> <<>>], hasStddev, lowest) IN
    /\ maDb' = <<db>>
    /\ maRejected' = res.threw
    /\ IF res.threw
       THEN maLoading' = TRUE /\ UNCHANGED maStats
       ELSE maLoading' = FALSE /\ maStats' = res.stats

\* the tables with data: one column of either declared type, named "a" or
\* "a b" (a name that the statements cannot take unquoted)
DataTables(name) ==
    [name : {name},
     columns : {<<[name |-> nm, type |-> ty]>> :
                    nm \in {ColumnNames[1], NameSpace}, ty \in DeclaredTypes},
     rows : BagsOfWidth(1)]
UnreadableTable(name) ==
    [name |-> name, columns |-> <<>>, rows |-> [r \in {} |-> 0]]
DataTablesNamed(name) ==
    IF QueryThrows(name) THEN {UnreadableTable(name)} ELSE DataTables(name)

StatsNameLists == UNION {Picks(1, k) : k \in 0..MaxStatsTables}

\* MathematicalAnalysis is mounted with a database and its effect runs
MountStats ==
    /\ maDb = <<>>
    /\ \E pick \in StatsNameLists :
       \E db \in {d \in [1..Len(pick) -> UNION {DataTablesNamed(TableNames[i]) : i \in 1..Len(TableNames)}] :
                    \A j \in 1..Len(pick) : d[j].name = TableNames[pick[j]]} :
       \E hasStddev \in BOOLEAN, lowest \in BOOLEAN :
          analyze(db, hasStddev, lowest) /\ maHasStddev' = hasStddev
    /\ UNCHANGED <<healthVars, saVars, aaVars, layoutVars>>

NextStats == MountStats

SpecStats == Init /\ [][NextStats]_vars

\* C4: a statistics pass produces the statistics of every table whose
\* statements succeed, whatever fails for another table, and no exception
\* escapes it.
C4_IsolatedPerUnit ==
    maDb # <<>> =>
        /\ ~maRejected
        /\ [i \in 1..Len(maStats) |-> maStats[i].name] = Introspectable(maDb[1])

----------------------------------------------------------------------------
(* AdvancedAnalytics: App.tsx:417-716; SpecAnalytics.  The databases hold  *)
(* at most one table, so the table selector has nothing to change.         *)

\* the position of the column named name in table t
ColumnIndex(t, name) == CHOOSE c \in 1..Len(t.columns) : t.columns[c].name = name

\* toFixed(d) of the fraction p / q, as the integer p / q * 10^d rounded
ToFixed1(p, q) == Round(10 * p, q)
ToFixed2(p, q) == Round(100 * p, q)

\* OutlierRows with >= in the place of >
OutlierRowsInclusive(bag, c) ==
    LET R == NonNullRows(bag, c)
        n == CountRows(bag, R)
        S == SumCol(bag, R, c)
        rs == SetToSeq(R)
        Q == SumSeq([i \in 1..Len(rs) |->
                bag[rs[i]] * (n * rs[i][c].val - S) * (n * rs[i][c].val - S)]) IN
    {r \in R : \/ r[c] = TextCell
               \/ n * (n * r[c].val - S) * (n * r[c].val - S) >= 4 * Q}

\* the rows counted by the statement of lines 613-617, where avg = S / n and
\* stdDev = sqrt(SUM((x - avg)^2) / n): x > avg + 2 * stdDev or
\* x < avg - 2 * stdDev, that is n * (n * x - S)^2 > 4 * SUM((n * x - S)^2).
\* A column declared TEXT is compared as text with the two limits: 'x' lies
\* above the text of every number.
OutlierRows(bag, c) ==
    LET R == NonNullRows(bag, c)
        n == CountRows(bag, R)
        S == SumCol(bag, R, c)
        rs == SetToSeq(R)
        Q == SumSeq([i \in 1..Len(rs) |->
                bag[rs[i]] * (n * rs[i][c].val - S) * (n * rs[i][c].val - S)]) IN
    {r \in R : \/ r[c] = TextCell
               \/ n * (n * r[c].val - S) * (n * r[c].val - S) > 4 * Q}

\* lines 578-626: the insights on column named col (the two limits printed
\* in the text of the outlier insight are left out)
ColumnInsights(t, col) ==
    LET c == ColumnIndex(t, col)
        R == NonNullRows(t.rows, c)
        count == CountRows(t.rows, R)
        agg == AggregateRow(t.rows, c)
        outlierCount == CountRows(t.rows, OutlierRows(t.rows, c)) IN
    <<[kind |-> "range", col |-> col, min |-> agg.min, max |-> agg.max,
       avg |-> IF count = 0 THEN 0 ELSE ToFixed2(SumCol(t.rows, R, c), count)]>>
    \o (IF agg.unique.val # 0
        THEN <<[kind |-> "unique", col |-> col, count |-> agg.unique.val,
                percentage |-> ToFixed1(100 * agg.unique.val, count)]>>
        ELSE <<>>)
    \o (IF count > 0 /\ outlierCount > 0
        THEN <<[kind |-> "outliers", col |-> col, count |-> outlierCount]>>
        ELSE <<>>)

\* lines 630-651: the most common value of a single column (which value it
\* is when several are as frequent is the engine's choice: left out)
TopValueInsight(t, col) ==
    LET c == ColumnIndex(t, col)
        vals == DistinctValues(t.rows, c) IN
    IF vals = {} THEN <<>>
    ELSE <<[kind |-> "top", col |-> col,
            count |-> MaxOf({Occurrences(t.rows, c, v) : v \in vals})]>>

\* lines 654-669: the NULL insight of one column
NullInsight(t, col) ==
    LET c == ColumnIndex(t, col)
        total == CountRows(t.rows, DOMAIN t.rows)
        nullCount == total - CountRows(t.rows, NonNullRows(t.rows, c)) IN
    IF nullCount > 0
    THEN <<[kind |-> "nulls", col |-> col, count |-> nullCount,
            percentage |-> ToFixed1(100 * nullCount, total)]>>
    ELSE <<>>

RECURSIVE Concat(_)
Concat(ss) == IF ss = <<>> THEN <<>> ELSE Head(ss) \o Concat(Tail(ss))

\* lines 567-675: generateInsights(table, columns)
generateInsights(t, columns) ==
    Concat([i \in 1..Len(columns) |->
                IF i = 1 /\ Len(columns) > 1 THEN <<>> ELSE ColumnInsights(t, columns[i])])
    \o (IF Len(columns) = 1 THEN TopValueInsight(t, columns[1]) ELSE <<>>)
    \o Concat([i \in 1..Len(columns) |-> NullInsight(t, columns[i])])

\* the number num / sqrt(dx * dy)
Pearson(num, dx, dy) == [tag |-> "number", num |-> num, dx |-> dx, dy |-> dy]

\* CorrelationOf with SUM(x) in the place of SUM(x) * SUM(x) under the root
CorrelationOfSumNotSquared(bag, c, d) ==
    LET R == NonNullRows(bag, c) \cap NonNullRows(bag, d)
        n == CountRows(bag, R)
        num == n * SumProd(bag, R, c, d) - SumCol(bag, R, c) * SumCol(bag, R, d)
        dx == n * SumProd(bag, R, c, c) - SumCol(bag, R, c)
        dy == n * SumProd(bag, R, d, d) - SumCol(bag, R, d) IN
    IF n = 0 \/ dx = 0 \/ dy = 0 THEN Num(0) ELSE Pearson(num, dx, dy)

\* lines 688-698: the answer of the correlation statement for columns c and d,
\* through Number().  SUM over no row is NULL, a division by zero is NULL,
\* and Number(null) is 0.
CorrelationOf(bag, c, d) ==
    LET R == NonNullRows(bag, c) \cap NonNullRows(bag, d)
        n == CountRows(bag, R)
        num == n * SumProd(bag, R, c, d) - SumCol(bag, R, c) * SumCol(bag, R, d)
        dx == n * SumProd(bag, R, c, c) - SumCol(bag, R, c) * SumCol(bag, R, c)
        dy == n * SumProd(bag, R, d, d) - SumCol(bag, R, d) * SumCol(bag, R, d) IN
    IF n = 0 \/ dx = 0 \/ dy = 0 THEN Num(0) ELSE Pearson(num, dx, dy)

\* calculateCorrelations with the inner loop started at 0 instead of i + 1
calculateCorrelationsFromZero(t, columns) ==
    LET pairs == Concat([i \in 1..Len(columns) |->
                    [k \in 1..Len(columns) |-> <<i, k>>]]) IN
    Concat([k \in 1..Len(pairs) |->
        LET corr == CorrelationOf(t.rows, ColumnIndex(t, columns[pairs[k][1]]),
                                  ColumnIndex(t, columns[pairs[k][2]])) IN
        IF IsNaN(corr) THEN <<>>
        ELSE <<[table |-> t.name, column1 |-> columns[pairs[k][1]],
                column2 |-> columns[pairs[k][2]], correlation |-> corr]>>])

\* lines 678-716: calculateCorrelations(table, columns)
calculateCorrelations(t, columns) ==
    LET pairs == Concat([i \in 1..Len(columns) |->
                    [k \in 1..(Len(columns) - i) |-> <<i, i + k>>]]) IN
    Concat([k \in 1..Len(pairs) |->
        LET corr == CorrelationOf(t.rows, ColumnIndex(t, columns[pairs[k][1]]),
                                  ColumnIndex(t, columns[pairs[k][2]])) IN
        IF IsNaN(corr) THEN <<>>
        ELSE <<[table |-> t.name, column1 |-> columns[pairs[k][1]],
                column2 |-> columns[pairs[k][2]], correlation |-> corr]>>])

\* lines 484-564: the chart effect for the selection sel of table t.  Only
\* which columns the chart shows is kept of chartData.
ChartEffect(t, sel) ==
    IF sel = <<>>
    THEN chartData' = Null /\ UNCHANGED <<insights, correlations>>
    ELSE IF \A r \in DOMAIN t.rows : \E i \in 1..Len(sel) : r[ColumnIndex(t, sel[i])] = Null
    THEN UNCHANGED <<chartData, insights, correlations>>
    ELSE /\ chartData' = [tag |-> "chart", columns |-> sel]
         /\ insights' = generateInsights(t, sel)
         /\ IF Len(sel) > 1
            THEN correlations' = calculateCorrelations(t, sel)
            ELSE UNCHANGED correlations

\* the cells of a column of the declared type: numbers or NULL in an INTEGER
\* column, the text 'x' or NULL in a TEXT column
TypedRows(types) ==
    {r \in [1..Len(types) -> Cells \cup {TextCell}] :
        \A c \in 1..Len(types) :
            r[c] \in IF IsNumericType(types[c]) THEN Cells ELSE {Null, TextCell}}
TypedBags(types) ==
    UNION {[D -> RowMultiplicities] :
            D \in {E \in SUBSET TypedRows(types) : Cardinality(E) <= MaxDistinctRows}}

\* the tables of MaxWideColumns columns: at most two distinct rows, each
\* once, and no NULL
MaxWideColumns == 3
WideTables ==
    UNION {[name : {NameAb},
            columns : {[c \in 1..MaxWideColumns |->
                           [name |-> <<ColumnLetters[c]>>, type |-> types[c]]]},
            rows : UNION {[D -> {1}] :
                      D \in {E \in SUBSET {r \in TypedRows(types) :
                                                \A c \in 1..MaxWideColumns : r[c] # Null} :
                                Cardinality(E) <= 2}}] :
           types \in [1..MaxWideColumns -> DeclaredTypes]}

\* the tables of two numeric columns and three to MaxScatterRows distinct
\* rows, each once: the tables whose columns are not on one line
MaxScatterRows == 4
ScatterTables ==
    [name : {NameAb},
     columns : {[c \in 1..2 |-> [name |-> <<ColumnLetters[c]>>, type |-> "INTEGER"]]},
     rows : UNION {[D -> {1}] :
               D \in {E \in SUBSET TypedRows(<<"INTEGER", "INTEGER">>) :
                         Cardinality(E) \in 3..MaxScatterRows}}]

\* the databases: no table, or one table of one to MaxDataColumns columns,
\* or one of the wide tables, or one of the scatter tables
AnalyticsTables ==
    UNION {[name : {NameAb, NameSpace},
            columns : {[c \in 1..Len(types) |->
                           [name |-> ColumnNames[c], type |-> types[c]]]},
            rows : TypedBags(types)] :
           types \in UNION {[1..w -> DeclaredTypes] : w \in 1..MaxDataColumns}}
    \cup WideTables \cup ScatterTables
AnalyticsDatabases == {<<>>} \cup {<<t>> : t \in AnalyticsTables}

\* lines 444-481 and 484-488: the three effects when the component is
\* mounted with db
MountAnalytics ==
    /\ aaDb = <<>>
    /\ \E db \in AnalyticsDatabases :
        /\ aaDb' = <<db>>
        /\ IF db = <<>>
           THEN UNCHANGED <<aaTables, selectedTable, aaColumns>>
           ELSE /\ aaTables' = <<db[1].name>>
                /\ selectedTable' = db[1].name
                /\ IF QueryThrows(db[1].name)
                   THEN UNCHANGED aaColumns
                   ELSE aaColumns' = db[1].columns
    /\ selectedColumns' = <<>>
    /\ chartData' = Null
    /\ UNCHANGED <<insights, correlations, healthVars, saVars, statsVars, layoutVars>>

\* line 806: the user ticks or unticks a column of the multiple select, and
\* the chart effect runs for the new selection
ToggleColumn ==
    /\ aaDb # <<>>
    /\ \E c \in 1..Len(aaColumns) :
        LET name == aaColumns[c].name
            sel == IF \E i \in 1..Len(selectedColumns) : selectedColumns[i] = name
                   THEN SelectSeq(selectedColumns, LAMBDA x : x # name)
                   ELSE Append(selectedColumns, name) IN
        /\ selectedColumns' = sel
        /\ ChartEffect(aaDb[1][1], sel)
    /\ UNCHANGED <<aaDb, aaTables, selectedTable, aaColumns, healthVars, saVars, statsVars,
                   layoutVars>>

NextAnalytics == MountAnalytics \/ ToggleColumn

SpecAnalytics == Init /\ [][NextAnalytics]_vars

----------------------------------------------------------------------------
(* SchemaGraphRenderer: SchemaGraphRenderer.tsx:33-160; SpecLayout.        *)
(* SqlAnalyzer mounts it only with at least one table (SqlAnalyzer.tsx:71) *)
(* and unmounts it while a file loads (line 69).                           *)

MaxLayoutTables == 9
MaxVariedTables == 2

\* lines 46-55: the palette (five colours of the theme, three fixed ones)
tableColors ==
    <<"primary.main", "secondary.main", "success.main", "warning.main", "info.main",
      "#8884d8", "#82ca9d", "#ffc658">>

\* lines 63-64
centerX == 400
centerY == 300

Min(a, b) == IF a < b THEN a ELSE b
Max(a, b) == IF a < b THEN b ELSE a

\* LayoutRadius without the cap of 300
LayoutRadiusUncapped(n) == n * 40

\* line 62: Math.min(300, tables.length * 40)
LayoutRadius(n) == Min(300, n * 40)

\* lines 68-70: center + Math.cos(angle) * radius (Math.sin for y), with
\* angle = (i / n) * Math.PI * 2; the cosine and the sine are not computed
Coordinate(center, fn, i, n, radius) ==
    [center |-> center, fn |-> fn, turn |-> <<i, n>>, radius |-> radius]

\* NodeWidth without the least width of 120
NodeWidthOfNameOnly(name) == Len(name) * 8

\* line 81: Math.max(table.name.length * 8, 120)
NodeWidth(name) == Max(Len(name) * 8, 120)

\* line 82: 40 + columns.length * 24
NodeHeight(columns) == 40 + Len(columns) * 24

\* lines 66-93: the node of the table at 0-based position i of n tables
SchemaTableOf(table, i, n) ==
    [name |-> table.name,
     columns |-> [c \in 1..Len(table.columns) |->
                    [name |-> table.columns[c].name,
                     type |-> table.columns[c].type,
                     isPk |-> table.columns[c].pk,
                     isFk |-> \E k \in 1..Len(table.foreignKeys) :
                                 table.foreignKeys[k].from = table.columns[c].name]],
     x |-> Coordinate(centerX, "cos", i, n, LayoutRadius(n)),
     y |-> Coordinate(centerY, "sin", i, n, LayoutRadius(n)),
     width |-> NodeWidth(table.name),
     height |-> NodeHeight(table.columns),
     color |-> tableColors[(i % Len(tableColors)) + 1]]

\* lines 96-107: the relationships of the foreign keys of every table
RECURSIVE RelationshipsOf(_)
RelationshipsOf(tables) ==
    IF tables = <<>> THEN <<>>
    ELSE [k \in 1..Len(Head(tables).foreignKeys) |->
            [fromTable |-> Head(tables).name,
             toTable |-> Head(tables).foreignKeys[k].table,
             fromColumn |-> Head(tables).foreignKeys[k].from,
             toColumn |-> Head(tables).foreignKeys[k].to]]
         \o RelationshipsOf(Tail(tables))

\* schemaTables.find(t => t.name === name): a sequence of at most one node
FindSchemaTable(name) ==
    LET found == SelectSeq(schemaTables, LAMBDA t : t.name = name) IN
    IF found = <<>> THEN <<>> ELSE <<found[1]>>

\* lines 135-138: x + width / 2 and y + height / 2 of a node
CenterOf(node) ==
    [x |-> [of |-> node.x, plus |-> node.width \div 2],
     y |-> [of |-> node.y, plus |-> node.height \div 2]]

\* lines 129-143: what the draw effect draws for each relationship, in order:
\* a line between the two centers, or nothing when a table is not found
LinesDrawn ==
    [k \in 1..Len(relationships) |->
        LET fromTable == FindSchemaTable(relationships[k].fromTable)
            toTable == FindSchemaTable(relationships[k].toTable) IN
        IF fromTable # <<>> /\ toTable # <<>>
        THEN <<[from |-> CenterOf(fromTable[1]), to |-> CenterOf(toTable[1])]>>
        ELSE <<>>]

\* the table at position i: its name is i letters long, but that of the
\* second table, which is longer than 15 letters
LongNameLength == 17
LayoutName(i) == [k \in 1..(IF i = 2 THEN LongNameLength ELSE i) |-> "a"]
\* the first table as a REFERENCES clause may spell it
LayoutNameUpper == <<"A">>

LayoutColumns ==
    {<<[name |-> <<"c">>, type |-> "INTEGER", notnull |-> FALSE, pk |-> TRUE]>>,
     <<[name |-> <<"c">>, type |-> "INTEGER", notnull |-> FALSE, pk |-> TRUE],
       [name |-> <<"d">>, type |-> "INTEGER", notnull |-> FALSE, pk |-> FALSE]>>}

\* no key, or up to MaxForeignKeys keys to the first table (in either
\* spelling) or the second
LayoutForeignKeyLists ==
    UNION {[1..n -> [from : {<<"c">>}, to : {<<"c">>},
                     table : {LayoutName(1), LayoutName(2), LayoutNameUpper}]] :
            n \in 0..MaxForeignKeys}

\* the tables props: the first MaxVariedTables tables differ in columns and
\* keys, the others have one column and no key
LayoutTablesOf(n) ==
    {[i \in 1..n |->
        IF i <= MaxVariedTables
        THEN [name |-> LayoutName(i), columns |-> v[i].columns,
              foreignKeys |-> v[i].foreignKeys]
        ELSE [name |-> LayoutName(i),
              columns |-> <<[name |-> <<"c">>, type |-> "INTEGER", notnull |-> FALSE,
                             pk |-> TRUE]>>,
              foreignKeys |-> <<>>]] :
     v \in [1..Min(n, MaxVariedTables) -> [columns : LayoutColumns,
                                           foreignKeys : LayoutForeignKeyLists]]}

\* lines 58-111: the effect on [tables] when the component is mounted
MountGraph ==
    /\ graphTables = <<>>
    /\ \E n \in 1..MaxLayoutTables : \E tables \in LayoutTablesOf(n) :
          /\ graphTables' = <<tables>>
          /\ schemaTables' = [i \in 1..n |-> SchemaTableOf(tables[i], i - 1, n)]
          /\ relationships' = RelationshipsOf(tables)
    /\ UNCHANGED graphPrev
    /\ UNCHANGED <<healthVars, saVars, statsVars, aaVars>>

NextLayout == MountGraph

SpecLayout == Init /\ [][NextLayout]_vars

----------------------------------------------------------------------------

(* DatabaseHealth and SchemaGraphRenderer run again on a database they    *)
(* have run on before: SpecRepeat.  App mounts DatabaseHealth while its    *)
(* tab is the active one (App.tsx:267), SqlAnalyzer mounts the renderer    *)
(* while its tab is and no file loads (SqlAnalyzer.tsx:69-71, 105-107).    *)

\* the databases of SpecRepeat: no table, the table "ab" with or without a
\* primary key, and the table "a b", whose statements throw
RepeatDatabases ==
    {<<>>, <<[name |-> NameSpace] @@ NoAnswers>>}
    \cup {<<[name |-> NameAb,
             columns |-> <<[name |-> <<"c">>, type |-> "INTEGER", notnull |-> TRUE,
                            pk |-> pk]>>,
             rowCount |-> 150, foreignKeys |-> <<>>, indexes |-> 1]>> : pk \in BOOLEAN}

\* the component is mounted (again) and its effect runs
RemountHealth ==
    /\ healthDb = <<>>
    /\ \E db \in RepeatDatabases : analyzeDatabase(db)
    /\ UNCHANGED healthPrev
    /\ UNCHANGED <<saVars, statsVars, aaVars, layoutVars>>

\* the db prop changes while the component is mounted
RepeatDbChanged ==
    /\ healthDb # <<>>
    /\ \E db \in RepeatDatabases : analyzeDatabase(db)
    /\ healthPrev' = <<[db |-> healthDb[1], shown |-> HealthShown]>>
    /\ UNCHANGED <<saVars, statsVars, aaVars, layoutVars>>

\* another tab is chosen: the state of the component is dropped, and the
\* next mount starts from the useState initial values (lines 505-508)
UnmountHealth ==
    /\ healthDb # <<>>
    /\ healthPrev' = <<[db |-> healthDb[1], shown |-> HealthShown]>>
    /\ healthDb' = <<>>
    /\ healthLoading' = TRUE
    /\ healthChecks' = <<>>
    /\ dbStats' = <<>>
    /\ overallScore' = Num(0)
    /\ UNCHANGED <<saVars, statsVars, aaVars, layoutVars>>

\* lines 58-111: the effect on [tables] of a renderer mounted on tables
RemountGraph ==
    /\ graphTables = <<>>
    /\ \E tables \in {t \in LayoutTablesOf(1) : Len(t[1].foreignKeys) <= 1} :
          /\ graphTables' = <<tables>>
          /\ schemaTables' = [i \in 1..Len(tables) |->
                                 SchemaTableOf(tables[i], i - 1, Len(tables))]
          /\ relationships' = RelationshipsOf(tables)
    /\ UNCHANGED graphPrev
    /\ UNCHANGED <<healthVars, saVars, statsVars, aaVars>>

\* the renderer is unmounted: its state is dropped (lines 41-42)
UnmountGraph ==
    /\ graphTables # <<>>
    /\ graphPrev' = <<[tables |-> graphTables[1], nodes |-> schemaTables,
                       edges |-> relationships]>>
    /\ graphTables' = <<>>
    /\ schemaTables' = <<>>
    /\ relationships' = <<>>
    /\ UNCHANGED <<healthVars, saVars, statsVars, aaVars>>

NextRepeat ==
    \/ RemountHealth
    \/ RepeatDbChanged
    \/ UnmountHealth
    \/ RemountGraph
    \/ UnmountGraph

SpecRepeat == Init /\ [][NextRepeat]_vars

----------------------------------------------------------------------------

(* Properties of the health pass *)

\* the database of the last pass, and whether that pass ran to its end
PassRan == healthDb # <<>>
LastDb == healthDb[1]
PassThrew == PassRan /\ \E i \in 1..Len(LastDb) : QueryThrows(LastDb[i].name)
PassCompleted == PassRan /\ ~PassThrew

CheckIds == <<"structure", "primary_keys", "indices", "nullable", "naming", "size_distribution">>
ScoreSum ==
    SumSeq([i \in 1..Len(healthChecks) |->
        IF IsNum(healthChecks[i].score) THEN healthChecks[i].score.val ELSE 0])
SomeScoreNaN == \E i \in 1..Len(healthChecks) : IsNaN(healthChecks[i].score)

\* C1: after a completed pass there are exactly the six checks, in order,
\* and the overall score is the integer nearest to the mean of their scores
\* (halves upwards); it is NaN exactly when a score is NaN.
C1_OverallIsRoundedMean ==
    PassCompleted =>
        /\ [i \in 1..Len(healthChecks) |-> healthChecks[i].id] = CheckIds
        /\ IsNaN(overallScore) = SomeScoreNaN
        /\ ~SomeScoreNaN =>
              /\ 6 * (2 * overallScore.val - 1) <= 2 * ScoreSum
              /\ 2 * ScoreSum < 6 * (2 * overallScore.val + 1)

\* a completed pass whose mean lies exactly between two integers
C1_Witness == PassCompleted /\ ~SomeScoreNaN /\ ScoreSum % 6 = 3

\* C2: after a pass every score is a number in [0, 100] and so is the
\* overall score.
C2_ScoresInRange ==
    PassRan =>
        /\ \A i \in 1..Len(healthChecks) :
              /\ IsNum(healthChecks[i].score)
              /\ healthChecks[i].score.val \in 0..100
        /\ IsNum(overallScore)
        /\ overallScore.val \in 0..100

\* C6: after a pass in which a query throws, the health result is empty.
C6_FailedPassIsEmpty ==
    PassThrew => healthChecks = <<>> /\ dbStats = <<>>

\* the tables of the last database without a primary-key column
TablesWithoutPK ==
    Cardinality({i \in 1..Len(LastDb) :
        \A j \in 1..Len(LastDb[i].columns) : ~LastDb[i].columns[j].pk})

PrimaryKeysCheck == healthChecks[2]

\* the score is the integer nearest to 100 - k / n * 100
PrimaryKeyScoreAsClaimed ==
    /\ IsNum(PrimaryKeysCheck.score)
    /\ Len(LastDb) * (2 * PrimaryKeysCheck.score.val - 1)
            <= 2 * (100 * Len(LastDb) - 100 * TablesWithoutPK)
    /\ 2 * (100 * Len(LastDb) - 100 * TablesWithoutPK)
            < Len(LastDb) * (2 * PrimaryKeysCheck.score.val + 1)

\* C10 as stated: success iff no table lacks a primary key, error iff more
\* than half lack one, warning otherwise; score round(100 - k / n * 100).
C10_AsStated ==
    (PassCompleted /\ Len(LastDb) > 0) =>
        /\ PrimaryKeysCheck.id = "primary_keys"
        /\ PrimaryKeysCheck.status = "success" <=> TablesWithoutPK = 0
        /\ PrimaryKeysCheck.status = "error" <=> 2 * TablesWithoutPK > Len(LastDb)
        /\ PrimaryKeysCheck.status \in {"success", "error", "warning"}
        /\ PrimaryKeyScoreAsClaimed

\* C10, amended: success iff no table lacks a primary key, error iff at
\* least one table and at least half of the tables lack one, warning
\* otherwise; the score is 100 when no table lacks one (zero tables too) and
\* round(100 - k / n * 100) otherwise.
C10_PrimaryKeyCheck ==
    PassCompleted =>
        /\ PrimaryKeysCheck.id = "primary_keys"
        /\ PrimaryKeysCheck.status = "success" <=> TablesWithoutPK = 0
        /\ PrimaryKeysCheck.status = "error"
              <=> (TablesWithoutPK > 0 /\ 2 * TablesWithoutPK >= Len(LastDb))
        /\ PrimaryKeysCheck.status \in {"success", "error", "warning"}
        /\ IF TablesWithoutPK = 0 THEN PrimaryKeysCheck.score = Num(100)
           ELSE PrimaryKeyScoreAsClaimed

\* exactly half of the tables lack a primary key
C10_Witness ==
    /\ PassCompleted
    /\ TablesWithoutPK > 0
    /\ 2 * TablesWithoutPK = Len(LastDb)
    /\ PrimaryKeysCheck.status = "error"

----------------------------------------------------------------------------
(* Properties of a database without tables *)

\* C5: after the health pass and the statistics pass on a database without
\* tables, there are no health checks and no table or column statistics, and
\* neither pass ended in an error.
C5_EmptyDatabaseIsEmpty ==
    /\ (PassRan /\ LastDb = <<>>) => (healthChecks = <<>> /\ ~PassThrew)
    /\ (maDb # <<>> /\ maDb[1] = <<>>) => (maStats = <<>> /\ ~maRejected)

----------------------------------------------------------------------------
(* Properties of AdvancedAnalytics *)

AnalyticsTable == aaDb[1][1]

\* n * SUM(x * x) - SUM(x)^2 of column c over the rows where c and d are not NULL
SpreadOver(bag, c, d) ==
    LET R == NonNullRows(bag, c) \cap NonNullRows(bag, d) IN
    CountRows(bag, R) * SumProd(bag, R, c, c) - SumCol(bag, R, c) * SumCol(bag, R, c)

\* the Pearson coefficient of the columns named col1 and col2 is defined
CoefficientDefined(t, col1, col2) ==
    LET c == ColumnIndex(t, col1)
        d == ColumnIndex(t, col2) IN
    /\ NonNullRows(t.rows, c) \cap NonNullRows(t.rows, d) # {}
    /\ SpreadOver(t.rows, c, d) > 0
    /\ SpreadOver(t.rows, d, c) > 0

\* C7: every reported correlation is of a pair of columns whose Pearson
\* coefficient is defined: both columns vary over the rows where both are
\* not NULL, and there is such a row.
C7_UndefinedPairsDropped ==
    \A i \in 1..Len(correlations) :
        CoefficientDefined(AnalyticsTable, correlations[i].column1, correlations[i].column2)

\* the single column col is selected and holds the values 1, 1, 1, 1, 100
ScenarioE(col) ==
    /\ selectedColumns = <<col>>
    /\ LET c == ColumnIndex(AnalyticsTable, col) IN
        /\ NullRows(AnalyticsTable.rows, c) = {}
        /\ DistinctValues(AnalyticsTable.rows, c) = {1, 100}
        /\ Occurrences(AnalyticsTable.rows, c, 1) = 4
        /\ Occurrences(AnalyticsTable.rows, c, 100) = 1

InsightsOn(kind, col) == SelectSeq(insights, LAMBDA x : x.kind = kind /\ x.col = col)

\* the range insight on col gives the average 20.80
MeanIs2080(col) ==
    /\ Len(InsightsOn("range", col)) = 1
    /\ InsightsOn("range", col)[1].avg = 2080

\* C8 as stated: with the single column 1, 1, 1, 1, 100 selected the mean
\* is 20.8 and the outlier insight is there and counts one row, the 100.
C8_AsStated ==
    \A i \in 1..Len(ColumnNames) :
        ScenarioE(ColumnNames[i]) =>
            /\ MeanIs2080(ColumnNames[i])
            /\ Len(InsightsOn("outliers", ColumnNames[i])) = 1
            /\ InsightsOn("outliers", ColumnNames[i])[1].count = 1

\* C8, amended: with the single column 1, 1, 1, 1, 100 selected the mean is
\* 20.8 and there is no outlier insight: 100 is mean + 2 * stddev exactly
\* and the rule counts only values beyond that.
C8_MeanAndNoOutlier ==
    \A i \in 1..Len(ColumnNames) :
        ScenarioE(ColumnNames[i]) =>
            /\ MeanIs2080(ColumnNames[i])
            /\ InsightsOn("outliers", ColumnNames[i]) = <<>>

\* the column 1, 1, 1, 1, 100 is selected and charted
C8_Witness ==
    \E i \in 1..Len(ColumnNames) :
        /\ ScenarioE(ColumnNames[i])
        /\ chartData = [tag |-> "chart", columns |-> <<ColumnNames[i]>>]
        /\ Len(InsightsOn("range", ColumnNames[i])) = 1

\* the rows of the table, and those where the column named col is NULL
TotalRows(t) == CountRows(t.rows, DOMAIN t.rows)
NullCount(t, col) == CountRows(t.rows, NullRows(t.rows, ColumnIndex(t, col)))

\* x is the null insight on col: its count, and the percentage of all rows
\* to one decimal
IsNullInsightOf(x, t, col) ==
    /\ x.kind = "nulls"
    /\ x.col = col
    /\ x.count = NullCount(t, col)
    /\ TotalRows(t) * (2 * x.percentage - 1) <= 2000 * NullCount(t, col)
    /\ 2000 * NullCount(t, col) < TotalRows(t) * (2 * x.percentage + 1)

\* C9: while columns are selected, the insights hold a null insight for
\* exactly the selected columns with a NULL, with the count and the
\* percentage of all rows (10 and 100.0 for a column of ten NULLs).
C9_NullInsights ==
    selectedColumns # <<>> =>
        /\ \A i \in 1..Len(selectedColumns) :
              NullCount(AnalyticsTable, selectedColumns[i]) > 0 =>
                \E k \in 1..Len(insights) :
                    IsNullInsightOf(insights[k], AnalyticsTable, selectedColumns[i])
        /\ \A k \in 1..Len(insights) :
              insights[k].kind = "nulls" =>
                \E i \in 1..Len(selectedColumns) :
                    /\ NullCount(AnalyticsTable, selectedColumns[i]) > 0
                    /\ IsNullInsightOf(insights[k], AnalyticsTable, selectedColumns[i])

----------------------------------------------------------------------------
(* Properties of the single checks of a completed health pass *)

\* score is the integer nearest to 100 - p / q * k, halves upwards (q > 0)
IsRoundedScore(score, p, q, k) ==
    /\ IsNum(score)
    /\ q * (2 * score.val - 1) <= 2 * (100 * q - p * k)
    /\ 2 * (100 * q - p * k) < q * (2 * score.val + 1)

\* the tables of more than 100 rows, and those of them without an index
TablesOver100Rows == {i \in 1..Len(LastDb) : LastDb[i].rowCount > 100}
MissingIndexTables == {i \in TablesOver100Rows : LastDb[i].indexes = 0}
IndicesCheck == healthChecks[3]

\* C11: the indexing check is success with score 100 iff every table of more
\* than 100 rows has an index; otherwise it is warning, there is a table of
\* more than 100 rows to divide by, and the score is
\* round(100 - missing / over100 * 70).
C11_IndexCheck ==
    PassCompleted =>
        /\ IndicesCheck.id = "indices"
        /\ IndicesCheck.status = "success" <=> MissingIndexTables = {}
        /\ MissingIndexTables = {} => IndicesCheck.score = Num(100)
        /\ MissingIndexTables # {} =>
              /\ IndicesCheck.status = "warning"
              /\ TablesOver100Rows # {}
              /\ IsRoundedScore(IndicesCheck.score, Cardinality(MissingIndexTables),
                                Cardinality(TablesOver100Rows), 70)

\* a table of 150 rows without an index next to a larger one with an index
C11_Witness ==
    /\ PassCompleted
    /\ \E i \in MissingIndexTables : LastDb[i].rowCount = 150
    /\ Cardinality(MissingIndexTables) < Cardinality(TablesOver100Rows)
    /\ Cardinality(TablesOver100Rows) < Len(LastDb)
    /\ IndicesCheck.status = "warning"

\* the rows of all tables and of the largest one
RowsOfAllTables == SumSeq([i \in 1..Len(LastDb) |-> LastDb[i].rowCount])
RowsOfLargestTable == MaxOf({LastDb[i].rowCount : i \in 1..Len(LastDb)})
SizeCheck == healthChecks[6]

\* the size check is the one of the fraction p / q
SizeCheckOfFraction(p, q) ==
    /\ SizeCheck.id = "size_distribution"
    /\ SizeCheck.status = (IF 10 * p < 7 * q THEN "success"
                           ELSE IF 10 * p < 9 * q THEN "warning" ELSE "info")
    /\ IsRoundedScore(SizeCheck.score, p, q, 80)

\* C12 as stated: for every number of tables, one included, the check is
\* that of the fraction of all rows held by the largest table.
C12_AsStated ==
    (PassCompleted /\ RowsOfAllTables > 0) =>
        SizeCheckOfFraction(RowsOfLargestTable, RowsOfAllTables)

\* C12, amended: with two or more tables and at least one row the check is
\* that of the fraction of all rows held by the largest table; with fewer
\* than two tables, or no row at all, it is that of the fraction 0
\* (success, score 100).
C12_SizeDistribution ==
    PassCompleted =>
        IF Len(LastDb) >= 2 /\ RowsOfAllTables > 0
        THEN SizeCheckOfFraction(RowsOfLargestTable, RowsOfAllTables)
        ELSE SizeCheckOfFraction(0, 1) /\ SizeCheck.status = "success"
                /\ SizeCheck.score = Num(100)

\* a single table that holds rows
C12_Witness ==
    /\ PassCompleted
    /\ Len(LastDb) = 1
    /\ RowsOfAllTables > 0
    /\ SizeCheck.status = "success"

\* the table names of the last database; all of them are of one pattern
LastNames == [i \in 1..Len(LastDb) |-> LastDb[i].name]
AllSnakeCase == \A i \in 1..Len(LastDb) : IsSnakeCase(LastDb[i].name)
AllCamelCase == \A i \in 1..Len(LastDb) : IsCamelCase(LastDb[i].name)
AllPascalCase == \A i \in 1..Len(LastDb) : IsPascalCase(LastDb[i].name)
OnePatternForAll == AllSnakeCase \/ AllCamelCase \/ AllPascalCase
NamingCheckOfPass == healthChecks[5]

\* C13 as stated: for every number of tables the naming check is success
\* with score 100 iff one of the three patterns is matched by all the table
\* names, and has score 70 otherwise.
C13_AsStated ==
    PassCompleted =>
        /\ NamingCheckOfPass.id = "naming"
        /\ (NamingCheckOfPass.status = "success" /\ NamingCheckOfPass.score = Num(100))
              <=> OnePatternForAll
        /\ ~OnePatternForAll => NamingCheckOfPass.score = Num(70)

\* C13, amended: with two or more tables the naming check is success with
\* score 100 iff one of the three patterns is matched by all the table
\* names, and has score 70 otherwise; with fewer than two tables it is
\* success with score 100 whatever the name.  Names that are all PascalCase
\* and not all of an earlier pattern are detected as PascalCase.
C13_NamingCheck ==
    PassCompleted =>
        /\ NamingCheckOfPass.id = "naming"
        /\ (NamingCheckOfPass.status = "success" /\ NamingCheckOfPass.score = Num(100))
              <=> (Len(LastDb) < 2 \/ OnePatternForAll)
        /\ ~(Len(LastDb) < 2 \/ OnePatternForAll) => NamingCheckOfPass.score = Num(70)
        /\ (Len(LastDb) >= 2 /\ AllPascalCase) =>
              detectNamingPatterns(LastNames) = [consistent |-> TRUE, pattern |-> "PascalCase"]

\* a single table whose name is of no pattern
C13_Witness ==
    /\ PassCompleted
    /\ Len(LastDb) = 1
    /\ ~OnePatternForAll
    /\ NamingCheckOfPass.score = Num(100)

\* three PascalCase names, one of two words
C13_ScenarioD ==
    /\ PassCompleted
    /\ Len(LastDb) = 3
    /\ AllPascalCase
    /\ \E i \in 1..3 : LastDb[i].name = NamePascalTwoWords
    /\ NamingCheckOfPass.score = Num(100)

\* a name with its capital letters made small: SQLite's comparison of names
FoldCase(name) ==
    [i \in 1..Len(name) |->
        IF name[i] = "A" THEN "a" ELSE IF name[i] = "B" THEN "b" ELSE name[i]]

\* table i of the last database is the source or the target of a foreign key
IsSourceOfKey(i) == LastDb[i].foreignKeys # <<>>
IsTargetOfKey(i) ==
    \E j \in 1..Len(LastDb) : \E k \in 1..Len(LastDb[j].foreignKeys) :
        FoldCase(LastDb[j].foreignKeys[k].table) = FoldCase(LastDb[i].name)
StructureCheckOfPass == healthChecks[1]

ColumnsOfAllTables == SumSeq([i \in 1..Len(LastDb) |-> Len(LastDb[i].columns)])
NullableColumnsOfAllTables ==
    SumSeq([i \in 1..Len(LastDb) |->
        Cardinality({j \in 1..Len(LastDb[i].columns) : ~LastDb[i].columns[j].notnull})])
NullableCheckOfPass == healthChecks[4]

\* C15: with ratio = nullable columns / all columns, the nullability check
\* is success if ratio < 0.3, warning if ratio < 0.6, info otherwise, and
\* its score is round(100 - ratio * 100).  (Without any column the ratio is
\* 0 / 0: neither comparison holds and the score is not a number.)
C15_NullableCheck ==
    PassCompleted =>
        /\ NullableCheckOfPass.id = "nullable"
        /\ IF ColumnsOfAllTables > 0
           THEN /\ NullableCheckOfPass.status =
                    (IF 10 * NullableColumnsOfAllTables < 3 * ColumnsOfAllTables THEN "success"
                     ELSE IF 10 * NullableColumnsOfAllTables < 6 * ColumnsOfAllTables
                          THEN "warning" ELSE "info")
                /\ IsRoundedScore(NullableCheckOfPass.score, NullableColumnsOfAllTables,
                                  ColumnsOfAllTables, 100)
           ELSE NullableCheckOfPass.status = "info" /\ IsNaN(NullableCheckOfPass.score)

\* one nullable column of three
C15_Witness ==
    /\ PassCompleted
    /\ ColumnsOfAllTables = 3
    /\ NullableColumnsOfAllTables = 1
    /\ NullableCheckOfPass.status = "warning"
    /\ NullableCheckOfPass.score = Num(67)

\* what is taken off the score of table i of the last database
NoPrimaryKey(i) == \A j \in 1..Len(LastDb[i].columns) : ~LastDb[i].columns[j].pk
NoIndexManyRows(i) == LastDb[i].indexes = 0 /\ LastDb[i].rowCount > 100
MostlyNullable(i) ==
    2 * Cardinality({j \in 1..Len(LastDb[i].columns) : ~LastDb[i].columns[j].notnull})
        > Len(LastDb[i].columns)

RemediationTexts ==
    [structure |-> "Define proper relationships between tables using foreign keys to improve data integrity.",
     primary_keys |-> "Add primary keys to all tables to improve query performance and ensure data integrity.",
     indices |-> "Create indices on frequently queried columns, especially in tables with many rows.",
     nullable |-> "Consider making more columns NOT NULL to improve data quality and query performance.",
     naming |-> "Standardize table and column naming conventions (e.g., use snake_case consistently).",
     size_distribution |-> "Consider normalizing large tables further to distribute data more evenly."]

\* the positions of the checks that score below 80, in order
RECURSIVE LowPositions(_)
LowPositions(i) ==
    IF i > Len(healthChecks) THEN <<>>
    ELSE (IF IsNum(healthChecks[i].score) /\ healthChecks[i].score.val < 80
          THEN <<i>> ELSE <<>>) \o LowPositions(i + 1)

\* C17: after a pass the recommendations are, in check order, one entry with
\* the fixed text of its check for every check that scores below 80, and the
\* message "no critical issues" is shown iff the pass produced its checks
\* and none of them scores below 80.
C17_Recommendations ==
    PassRan =>
        /\ Len(Recommendations) = Len(LowPositions(1))
        /\ \A k \in 1..Len(Recommendations) :
              /\ Recommendations[k].id = healthChecks[LowPositions(1)[k]].id
              /\ Recommendations[k].text = RemediationTexts[Recommendations[k].id]
        /\ NoCriticalIssuesShown <=> (PassCompleted /\ LowPositions(1) = <<>>)

----------------------------------------------------------------------------
(* Properties of the schema graph *)

GraphMounted == graphTables # <<>>
GraphTables == graphTables[1]

\* C18: the layout has one node per table, in the order of the tables; the
\* node at 0-based position i of N is on the circle of radius
\* min(300, N * 40) around (400, 300) at i / N of a turn, and its colour is
\* the palette's entry i modulo the size of the palette.
C18_CircleLayout ==
    GraphMounted =>
        /\ Len(schemaTables) = Len(GraphTables)
        /\ \A p \in 1..Len(GraphTables) :
              LET N == Len(GraphTables)
                  radius == IF N * 40 < 300 THEN N * 40 ELSE 300 IN
              /\ schemaTables[p].name = GraphTables[p].name
              /\ schemaTables[p].x =
                    [center |-> 400, fn |-> "cos", turn |-> <<p - 1, N>>, radius |-> radius]
              /\ schemaTables[p].y =
                    [center |-> 300, fn |-> "sin", turn |-> <<p - 1, N>>, radius |-> radius]
              /\ schemaTables[p].color = tableColors[((p - 1) % 8) + 1]

\* nine tables: the radius is capped and the ninth node takes the first colour
C18_Witness ==
    /\ GraphMounted
    /\ Len(schemaTables) = 9
    /\ schemaTables[9].x.radius = 300
    /\ schemaTables[9].color = schemaTables[1].color
    /\ schemaTables[8].color # schemaTables[1].color

\* C19: every node is max(8 * length of the name, 120) wide and
\* 40 + 24 * number of columns high.
C19_NodeSize ==
    GraphMounted =>
        \A p \in 1..Len(schemaTables) :
            /\ schemaTables[p].width =
                  (IF 8 * Len(GraphTables[p].name) > 120
                   THEN 8 * Len(GraphTables[p].name) ELSE 120)
            /\ schemaTables[p].height = 40 + 24 * Len(GraphTables[p].columns)

\* a node wider than 120 next to one of the least width, and a node of two columns
C19_Witness ==
    /\ GraphMounted
    /\ \E p \in 1..Len(schemaTables) : schemaTables[p].width > 120
    /\ \E p \in 1..Len(schemaTables) :
          schemaTables[p].width = 120 /\ Len(GraphTables[p].name) < 15
    /\ \E p \in 1..Len(schemaTables) : schemaTables[p].height = 88

\* the number of foreign keys of the tables before table p
RECURSIVE KeysBefore(_)
KeysBefore(p) == IF p <= 1 THEN 0 ELSE KeysBefore(p - 1) + Len(GraphTables[p - 1].foreignKeys)

\* the point (x + width / 2, y + height / 2) of node p
MiddleOfNode(p) ==
    [x |-> [of |-> schemaTables[p].x, plus |-> schemaTables[p].width \div 2],
     y |-> [of |-> schemaTables[p].y, plus |-> schemaTables[p].height \div 2]]

----------------------------------------------------------------------------
(* Repeated passes *)

\* C21: a health pass on the database of the pass before it leaves the same
\* overall score, checks, statistics and table scores on display as that
\* pass did, and a layout of the tables of the layout before it gives the
\* same nodes and the same edges
C21_RepeatedPassSameOutputs ==
    /\ (healthPrev # <<>> /\ healthDb # <<>> /\ healthPrev[1].db = healthDb[1])
          => healthPrev[1].shown = HealthShown
    /\ (graphPrev # <<>> /\ graphTables # <<>> /\ graphPrev[1].tables = graphTables[1])
          => /\ graphPrev[1].nodes = schemaTables
             /\ graphPrev[1].edges = relationships

\* the part of C21 on passes that run to their end, and on the layout
C21_CompletedPassSameOutputs ==
    /\ (healthPrev # <<>> /\ healthDb # <<>> /\ healthPrev[1].db = healthDb[1]
            /\ ~(\E i \in 1..Len(healthDb[1]) : QueryThrows(healthDb[1][i].name)))
          => healthPrev[1].shown = HealthShown
    /\ (graphPrev # <<>> /\ graphTables # <<>> /\ graphPrev[1].tables = graphTables[1])
          => /\ graphPrev[1].nodes = schemaTables
             /\ graphPrev[1].edges = relationships

----------------------------------------------------------------------------
(* Properties of the correlation results *)

\* C22: the correlation results hold at most one result for each unordered
\* pair of columns: no result pairs a column with itself, and no two
\* results are on the same two columns, in either order
C22_OnePerUnorderedPair ==
    \A k \in 1..Len(correlations) :
        /\ correlations[k].column1 # correlations[k].column2
        /\ \A l \in 1..Len(correlations) :
              k # l => {correlations[k].column1, correlations[k].column2}
                           # {correlations[l].column1, correlations[l].column2}

\* three columns are selected and the results are those of their three pairs
C22_Witness ==
    /\ Len(selectedColumns) = 3
    /\ chartData # Null /\ chartData.columns = selectedColumns
    /\ Len(correlations) = 3
    /\ {correlations[k].column1 : k \in 1..3} \cup {correlations[k].column2 : k \in 1..3}
          = {selectedColumns[i] : i \in 1..3}

\* the declared type of the column named name of the selected table
DeclaredTypeOf(name) ==
    aaColumns[CHOOSE c \in 1..Len(aaColumns) : aaColumns[c].name = name].type

\* C23: every correlation result is on two columns of a numeric declared
\* type; a column of another type, the first selected one included, is in
\* no result
C23_OnlyNumericColumns ==
    \A k \in 1..Len(correlations) :
        /\ IsNumericType(DeclaredTypeOf(correlations[k].column1))
        /\ IsNumericType(DeclaredTypeOf(correlations[k].column2))

\* the part of C23 on selections of numeric columns only is C22's; with a
\* TEXT column selected, the results on it are all 0
C23_TextColumnsCorrelateAsZero ==
    \A k \in 1..Len(correlations) :
        (\/ ~IsNumericType(DeclaredTypeOf(correlations[k].column1))
         \/ ~IsNumericType(DeclaredTypeOf(correlations[k].column2)))
            => correlations[k].correlation = Num(0)

\* the product a * b of two naturals below 10^8, as three digits to the
\* base 10^4, the highest first
WideProduct(a, b) ==
    LET B == 10000
        lo == (a % B) * (b % B)
        mid == (a \div B) * (b % B) + (a % B) * (b \div B) + lo \div B
        hi == (a \div B) * (b \div B) + mid \div B IN
    <<hi, mid % B, lo % B>>
WideLess(p, q) ==
    \/ p[1] < q[1]
    \/ p[1] = q[1] /\ p[2] < q[2]
    \/ p[1] = q[1] /\ p[2] = q[2] /\ p[3] < q[3]
Abs(x) == IF x < 0 THEN -x ELSE x

\* n * SUM(x * y) - SUM(x) * SUM(y) over the rows where c and d are not NULL
CoSpreadOver(bag, c, d) ==
    LET R == NonNullRows(bag, c) \cap NonNullRows(bag, d) IN
    CountRows(bag, R) * SumProd(bag, R, c, d) - SumCol(bag, R, c) * SumCol(bag, R, d)

\* C24: a reported coefficient that is defined is num / sqrt(dx * dy) of
\* the sums over the rows where both columns are not NULL, with
\* num^2 <= dx * dy, so it lies in [-1, 1]; and the statement on the two
\* columns in the other order gives the same number
C24_SymmetricAndInRange ==
    \A k \in 1..Len(correlations) :
        LET t == AnalyticsTable
            col1 == correlations[k].column1
            col2 == correlations[k].column2
            c == ColumnIndex(t, col1)
            d == ColumnIndex(t, col2)
            r == correlations[k].correlation
            swapped == CorrelationOf(t.rows, d, c) IN
        CoefficientDefined(t, col1, col2) =>
            /\ r = Pearson(CoSpreadOver(t.rows, c, d), SpreadOver(t.rows, c, d),
                           SpreadOver(t.rows, d, c))
            /\ ~WideLess(WideProduct(r.dx, r.dy), WideProduct(Abs(r.num), Abs(r.num)))
            /\ swapped.num = r.num
            /\ WideProduct(swapped.dx, swapped.dy) = WideProduct(r.dx, r.dy)

\* a coefficient strictly between 0 and 1 in size is reported
C24_Witness ==
    \E k \in 1..Len(correlations) :
        /\ CoefficientDefined(AnalyticsTable, correlations[k].column1,
                              correlations[k].column2)
        /\ correlations[k].correlation.num # 0
        /\ WideLess(WideProduct(Abs(correlations[k].correlation.num),
                                Abs(correlations[k].correlation.num)),
                    WideProduct(correlations[k].correlation.dx,
                                correlations[k].correlation.dy))

----------------------------------------------------------------------------
(* Properties of the column statistics *)

\* the non-null values of column c in ascending order, each as often as it occurs
RECURSIVE SortedFrom(_, _, _)
SortedFrom(bag, c, vals) ==
    IF vals = {} THEN <<>>
    ELSE LET v == MinOf(vals) IN
         [i \in 1..Occurrences(bag, c, v) |-> v] \o SortedFrom(bag, c, vals \ {v})
SortedValues(bag, c) == SortedFrom(bag, c, DistinctValues(bag, c))

\* the pass of MathematicalAnalysis ran to its end
StatsPassCompleted == maDb # <<>> /\ ~maRejected

\* the numeric columns with a value that report a median: records of the
\* reported median and the sorted values of the column
ReportedMedians ==
    IF ~StatsPassCompleted THEN {}
    ELSE UNION {{[median |-> maStats[i].columns[j].median,
                  sorted |-> SortedValues(maDb[1][i].rows, j)] :
                    j \in {k \in 1..Len(maStats[i].columns) :
                            /\ IsNumericType(maStats[i].columns[k].type)
                            /\ maStats[i].columns[k].median # Undefined}} :
                i \in 1..Len(maStats)}

C26_StatisticsPart ==
    StatsPassCompleted =>
        \A i \in 1..Len(maStats) : \A j \in 1..Len(maStats[i].columns) :
            LET stat == maStats[i].columns[j] IN
            ~IsNumericType(stat.type) =>
                /\ stat.min = Undefined /\ stat.max = Undefined /\ stat.avg = Undefined
                /\ stat.stddev = Undefined /\ stat.median = Undefined
                /\ stat.mode = Undefined
                /\ ~QueryThrows(stat.name) =>
                      stat.nulls # Undefined /\ stat.unique # Undefined

\* C26: minimum, maximum and mean are reported only for columns of a numeric
\* declared type, in the statistics and in the insights
C26_NumericAggregatesOnly ==
    /\ C26_StatisticsPart
    /\ \A k \in 1..Len(insights) :
          insights[k].kind = "range" => IsNumericType(DeclaredTypeOf(insights[k].col))

----------------------------------------------------------------------------
(* Properties of the file loads *)

\* C27: once no load is pending, the database of App is that of the file
\* selected last (none for a file that is not a database), and the tables
\* of a mounted SqlAnalyzer are the tables of that file
C27_LatestFileWins ==
    (appFile # <<>> /\ appPending = <<>> /\ saPending = <<>>) =>
        /\ appDb = IF appFile[1].readable THEN <<appFile[1].tables>> ELSE <<>>
        /\ SqlAnalyzerMounted =>
              saTables = [i \in 1..Len(appFile[1].tables) |->
                             TableInfoOf(appFile[1].tables[i])]

----------------------------------------------------------------------------
(* Properties of the loading flags *)

\* the part of C28 on DatabaseHealth: after a pass the flag is false
C28_HealthPart == healthDb # <<>> => ~healthLoading

\* the part of C28 on SqlAnalyzer: after a loadDb has resumed and run to its
\* end, with no other one suspended, the flag is false
C28_LoadDbPart == (saFinished # <<>> /\ saPending = <<>>) => ~saLoading

\* the part of C28 on MathematicalAnalysis: after a pass the flag is false
C28_StatisticsPart == maDb # <<>> => ~maLoading

\* C28: a pass of loadDb, analyze or analyzeDatabase that is over, with or
\* without a statement that threw, has set its loading flag back to false
C28_LoadingFlagReset == C28_HealthPart /\ C28_LoadDbPart /\ C28_StatisticsPart

\* the numeric columns of the last pass: records of the statistics
\* appended for the column, the rows of its table and its position
NumericColumnsAnalyzed ==
    IF ~StatsPassCompleted THEN {}
    ELSE UNION {{[stat |-> maStats[i].columns[j], rows |-> maDb[1][i].rows, at |-> j] :
                    j \in {k \in 1..Len(maStats[i].columns) :
                            IsNumericType(maDb[1][i].columns[k].type)}} :
                i \in 1..Len(maStats)}

\* C29: every column of a table is appended once, in order; for a numeric
\* column whose first statement (the aggregates) throws no field is set,
\* and where the second (STDDEV) throws the five fields of the first keep
\* the values it gave and stddev, median and mode are not set
C29_StepsOfNumericColumn ==
    /\ StatsPassCompleted =>
          \A i \in 1..Len(maStats) :
              [j \in 1..Len(maStats[i].columns) |-> maStats[i].columns[j].name]
                  = [j \in 1..Len(maDb[1][i].columns) |-> maDb[1][i].columns[j].name]
    /\ \A x \in NumericColumnsAnalyzed :
          LET agg == AggregateRow(x.rows, x.at)
              laterUnset == /\ x.stat.stddev = Undefined
                            /\ x.stat.median = Undefined
                            /\ x.stat.mode = Undefined IN
          /\ QueryThrows(x.stat.name) =>
                /\ x.stat.min = Undefined /\ x.stat.max = Undefined
                /\ x.stat.avg = Undefined /\ x.stat.nulls = Undefined
                /\ x.stat.unique = Undefined
                /\ laterUnset
          /\ (~QueryThrows(x.stat.name) /\ ~maHasStddev) =>
                /\ x.stat.min = agg.min /\ x.stat.max = agg.max
                /\ x.stat.avg = agg.avg /\ x.stat.nulls = agg.nulls
                /\ x.stat.unique = agg.unique
                /\ laterUnset

\* a numeric column with values whose STDDEV statement threw: the
\* aggregates are set, and no median although the column has values
C29_Witness ==
    \E x \in NumericColumnsAnalyzed :
        /\ ~QueryThrows(x.stat.name) /\ ~maHasStddev
        /\ NonNullRows(x.rows, x.at) # {}
        /\ x.stat.min # Undefined /\ x.stat.min # Null
        /\ x.stat.median = Undefined

(***************************************************************************)
(* Properties of the chat                                                  *)
(***************************************************************************)
HistoryHasNoGreeting(h) == \A i \in 1..Len(h) : h[i].kind \notin {"greeting", "init"}

HistoryStartsWithUser(h) == h = <<>> \/ h[1].role = "user"

ReturnsEarly == sendCalls' # sendCalls /\ (Blank(chatInput) \/ ~genAI)

\* C30: the history of every startChat call holds neither the first assistant
\* message nor the message being sent, and is empty or begins with a message
\* of role user; a handleSend call with blank input or without an API client
\* appends no message and starts no request.
C30_HistoryOfStartChat ==
    /\ [](startChatHistory # <<>> =>
            /\ HistoryHasNoGreeting(startChatHistory[1])
            /\ \A i \in 1..Len(startChatHistory[1]) :
                  ~(/\ startChatHistory[1][i].role = "user"
                    /\ startChatHistory[1][i].n = sentMessage[1].n)
            /\ HistoryStartsWithUser(startChatHistory[1]))
    /\ [][ReturnsEarly =>
            /\ messages' = messages
            /\ chatLoading' = chatLoading
            /\ startChatHistory' = startChatHistory]_vars

\* C30, the parts the code keeps: no first assistant message, not the message
\* being sent, and nothing appended or requested by a call that returns early
C30_PartsThatHold ==
    /\ [](startChatHistory # <<>> =>
            /\ HistoryHasNoGreeting(startChatHistory[1])
            /\ \A i \in 1..Len(startChatHistory[1]) :
                  ~(/\ startChatHistory[1][i].role = "user"
                    /\ startChatHistory[1][i].n = sentMessage[1].n))
    /\ [][ReturnsEarly =>
            /\ messages' = messages
            /\ chatLoading' = chatLoading
            /\ startChatHistory' = startChatHistory]_vars

\* C30: a startChat call whose history begins with a message of the model
C30_HistoryStartsWithModel ==
    /\ startChatHistory # <<>>
    /\ ~HistoryStartsWithUser(startChatHistory[1])

====
